---- MODULE Spec2Model ----
(***************************************************************************)
(* Turn engine of the Kombat hex game (GamePhase component, pointy-top     *)
(* board): shopping handlers, the execution scheduler, the per-unit action *)
(* resolver and the round transition through the persisted snapshot.        *)
(***************************************************************************)
EXTENDS Integers, Sequences, FiniteSets, TLC

\* ---------------------------------------------------------------- bounds
\* The board is scaled down from the 8 x 8 of the source so that the two
\* camps meet within the rounds explored.
ROWS == 4
COLS == 4
\* The gameSettings explored; the setup page accepts 1..99 turns and 1..999 gold.
MaxTurns == 3
MaxGold == 4
\* Cap on the number of units one player deploys in a match.
MaxSpawn == 2
\* Cap on the number of units beside the actor on a grid handed to the resolver.
MaxOthers == 3
\* The hexes the players click: the inner block and the two far corners.
ClickCells ==
  {cell \in (0 .. ROWS - 1) \X (0 .. COLS - 1) :
     cell[1] \in 1 .. ROWS - 2 /\ cell[2] \in 1 .. COLS - 2}
    \cup {<<0, 0>>, <<ROWS - 1, COLS - 1>>}

\* ------------------------------------------------------------- constants
INITIAL_GOLD == 20
HEX_COST == 3
STIPEND == 5
HEAL_RANGE == 2

\* The "all" player filter of an executing step, and the absent player.
All == 3
NoPlayer == 0

Players == {1, 2}

Cells == (0 .. ROWS - 1) \X (0 .. COLS - 1)

\* The catalog: id -> stats.  enabledChars is the curated subset.
CHARACTERS ==
  [ warrior  |-> [hp |-> 120, atk |-> 15, def |-> 10, cost |-> 1],
    mage     |-> [hp |-> 80,  atk |-> 25, def |-> 5,  cost |-> 2],
    tank     |-> [hp |-> 200, atk |-> 8,  def |-> 20, cost |-> 3],
    assassin |-> [hp |-> 70,  atk |-> 30, def |-> 3,  cost |-> 3],
    healer   |-> [hp |-> 90,  atk |-> 10, def |-> 8,  cost |-> 2] ]

\* The ids of the enabledCharacters record explored.
EnabledIds == {"assassin"}

\* P1: top-left 5 hexes; P2: the same 5 mirrored into the bottom-right corner.
P1_INITIAL == {<<0, 1>>, <<0, 2>>, <<1, 0>>, <<1, 1>>, <<2, 0>>}
P2_INITIAL == {<<ROWS - 1 - c[1], COLS - 1 - c[2]>> : c \in P1_INITIAL}

\* An empty cell's character (null in the source).
NoChar == [id |-> "none", hp |-> 0, maxHp |-> 0, owner |-> NoPlayer,
           spawnOrder |-> 0, uid |-> 0]

Max(a, b) == IF a >= b THEN a ELSE b
Min(a, b) == IF a <= b THEN a ELSE b
Abs(a) == IF a < 0 THEN -a ELSE a

\* ------------------------------------------------------------ hex helpers
InBounds(r, c) == r >= 0 /\ r < ROWS /\ c >= 0 /\ c < COLS

\* The offset table with the parity of the rows exchanged.
NeighborOffsetsSwapped(r) ==
  IF r % 2 = 1
  THEN << <<-1, -1>>, <<-1, 0>>, <<0, -1>>, <<0, 1>>, <<1, -1>>, <<1, 0>> >>
  ELSE << <<-1, 0>>, <<-1, 1>>, <<0, -1>>, <<0, 1>>, <<1, 0>>, <<1, 1>> >>

NeighborOffsets(r) ==
  IF r % 2 = 0
  THEN << <<-1, -1>>, <<-1, 0>>, <<0, -1>>, <<0, 1>>, <<1, -1>>, <<1, 0>> >>
  ELSE << <<-1, 0>>, <<-1, 1>>, <<0, -1>>, <<0, 1>>, <<1, 0>>, <<1, 1>> >>

\* The neighbours in the order of the offset table, out-of-board ones dropped.
\* getHexNeighbors without the filter on the bounds of the board.
getHexNeighborsUnfiltered(r, c) ==
  [i \in 1 .. 6 |-> <<r + NeighborOffsets(r)[i][1], c + NeighborOffsets(r)[i][2]>>]

getHexNeighbors(r, c) ==
  SelectSeq([i \in 1 .. 6 |-> <<r + NeighborOffsets(r)[i][1], c + NeighborOffsets(r)[i][2]>>],
            LAMBDA n : InBounds(n[1], n[2]))

\* Offset -> cube; (r - (r & 1)) is even, so the division is exact.
toCubeX(r, c) == c - ((r - (r % 2)) \div 2)
toCubeZ(r, c) == r
toCubeY(r, c) == (- toCubeX(r, c)) - toCubeZ(r, c)

\* hexDistance over the signed differences of the cube coordinates.
hexDistanceSigned(r1, c1, r2, c2) ==
  Max(Max(toCubeX(r1, c1) - toCubeX(r2, c2),
          toCubeY(r1, c1) - toCubeY(r2, c2)),
      toCubeZ(r1, c1) - toCubeZ(r2, c2))

hexDistance(r1, c1, r2, c2) ==
  Max(Max(Abs(toCubeX(r1, c1) - toCubeX(r2, c2)),
          Abs(toCubeY(r1, c1) - toCubeY(r2, c2))),
      Abs(toCubeZ(r1, c1) - toCubeZ(r2, c2)))

createInitialGrid ==
  [cell \in Cells |->
     [owner |-> IF cell \in P2_INITIAL THEN 2
                ELSE IF cell \in P1_INITIAL THEN 1 ELSE NoPlayer,
      character |-> NoChar]]

\* Position of a cell in the row-major scan  for r ... for c ...
RowMajor(cell) == cell[1] * COLS + cell[2]

SeqRange(s) == {s[i] : i \in 1 .. Len(s)}

\* The sequence of the cells of S in ascending order of key (keys are distinct).
RECURSIVE SortCells(_, _)
SortCells(S, key) ==
  IF S = {} THEN <<>>
  ELSE LET m == CHOOSE x \in S : \A y \in S : key[x] <= key[y]
       IN <<m>> \o SortCells(S \ {m}, key)

IsEmpty(g, cell) == g[cell].character = NoChar

\* Cells holding a character with hp > 0.
Living(g) == {cell \in Cells : ~IsEmpty(g, cell) /\ g[cell].character.hp > 0}

\* A stable sort by spawnOrder of the row-major scan.
SpawnKey(g) ==
  [cell \in Cells |-> g[cell].character.spawnOrder * (ROWS * COLS) + RowMajor(cell)]

\* ------------------------------------------------------- execution logic
\* getExecutionOrder in which player 1 moves first in the even rounds.
getExecutionOrderEvenFirst(g, playerFilter, turn) ==
  LET allChars == {cell \in Living(g) :
                     playerFilter = All \/ g[cell].character.owner = playerFilter}
      firstPlayer == IF turn % 2 = 0 THEN 1 ELSE 2
      secondPlayer == IF firstPlayer = 1 THEN 2 ELSE 1
      OwnedBy(p) == {cell \in allChars : g[cell].character.owner = p}
  IN IF playerFilter = All
     THEN SortCells(OwnedBy(firstPlayer), SpawnKey(g))
            \o SortCells(OwnedBy(secondPlayer), SpawnKey(g))
     ELSE SortCells(allChars, SpawnKey(g))

\* getExecutionOrder that schedules both players whatever the filter.
getExecutionOrderNoFilter(g, playerFilter, turn) ==
  LET allChars == Living(g)
      firstPlayer == IF turn % 2 = 1 THEN 1 ELSE 2
      secondPlayer == IF firstPlayer = 1 THEN 2 ELSE 1
      OwnedBy(p) == {cell \in allChars : g[cell].character.owner = p}
  IN IF playerFilter = All
     THEN SortCells(OwnedBy(firstPlayer), SpawnKey(g))
            \o SortCells(OwnedBy(secondPlayer), SpawnKey(g))
     ELSE SortCells(allChars, SpawnKey(g))

getExecutionOrder(g, playerFilter, turn) ==
  LET allChars == {cell \in Living(g) :
                     playerFilter = All \/ g[cell].character.owner = playerFilter}
      firstPlayer == IF turn % 2 = 1 THEN 1 ELSE 2
      secondPlayer == IF firstPlayer = 1 THEN 2 ELSE 1
      OwnedBy(p) == {cell \in allChars : g[cell].character.owner = p}
  IN IF playerFilter = All
     THEN SortCells(OwnedBy(firstPlayer), SpawnKey(g))
            \o SortCells(OwnedBy(secondPlayer), SpawnKey(g))
     ELSE SortCells(allChars, SpawnKey(g))

\* moveToward that also takes a neighbour at the same distance as the actor.
moveTowardNotStrict(g, from, to) ==
  LET neighbors == getHexNeighbors(from[1], from[2])
      D(cell) == hexDistance(cell[1], cell[2], to[1], to[2])
      better == {i \in 1 .. Len(neighbors) :
                   IsEmpty(g, neighbors[i]) /\ D(neighbors[i]) <= D(from)}
      best == CHOOSE i \in better :
                \A j \in better :
                   D(neighbors[i]) < D(neighbors[j])
                   \/ (D(neighbors[i]) = D(neighbors[j]) /\ i <= j)
  IN IF better = {} THEN g
     ELSE [g EXCEPT ![neighbors[best]].character = g[from].character,
                    ![from].character = NoChar]

\* moveToward that hands the cell the unit arrives on to the unit's owner.
moveTowardClaimsCell(g, from, to) ==
  LET neighbors == getHexNeighbors(from[1], from[2])
      D(cell) == hexDistance(cell[1], cell[2], to[1], to[2])
      better == {i \in 1 .. Len(neighbors) :
                   IsEmpty(g, neighbors[i]) /\ D(neighbors[i]) < D(from)}
      best == CHOOSE i \in better :
                \A j \in better :
                   D(neighbors[i]) < D(neighbors[j])
                   \/ (D(neighbors[i]) = D(neighbors[j]) /\ i <= j)
  IN IF better = {} THEN g
     ELSE [g EXCEPT ![neighbors[best]] = [owner |-> g[from].character.owner,
                                          character |-> g[from].character],
                    ![from].character = NoChar]

moveToward(g, from, to) ==
  LET neighbors == getHexNeighbors(from[1], from[2])
      D(cell) == hexDistance(cell[1], cell[2], to[1], to[2])
      better == {i \in 1 .. Len(neighbors) :
                   IsEmpty(g, neighbors[i]) /\ D(neighbors[i]) < D(from)}
      \* the loop keeps the first neighbour that reaches the smallest distance
      best == CHOOSE i \in better :
                \A j \in better :
                   D(neighbors[i]) < D(neighbors[j])
                   \/ (D(neighbors[i]) = D(neighbors[j]) /\ i <= j)
  IN IF better = {} THEN g
     ELSE [g EXCEPT ![neighbors[best]].character = g[from].character,
                    ![from].character = NoChar]

\* The action moveToward reports: actionDesc when bestPos was found.
moveTowardAction(g, from, to, actionDesc) ==
  LET neighbors == getHexNeighbors(from[1], from[2])
      D(cell) == hexDistance(cell[1], cell[2], to[1], to[2])
      better == {i \in 1 .. Len(neighbors) :
                   IsEmpty(g, neighbors[i]) /\ D(neighbors[i]) < D(from)}
  IN IF better = {} THEN "Blocked" ELSE actionDesc

\* The damage without the floor of 1.
DamageNoFloor(atk, def) == atk - def

Damage(atk, def) == Max(1, atk - def)

\* executeCharAction whose heal is not capped at maxHp.
executeCharActionUncappedHeal(g, pos) ==
  LET currentChar == g[pos].character
      Dist(cell) == hexDistance(pos[1], pos[2], cell[1], cell[2])
      enemies == {cell \in Living(g) : g[cell].character.owner # currentChar.owner}
      allies == {cell \in Living(g) :
                   g[cell].character.owner = currentChar.owner /\ cell # pos}
      wounded == {a \in allies : g[a].character.hp < g[a].character.maxHp}
      \* wounded.sort by hp, stable over the row-major scan; [0]
      woundedKey == [cell \in Cells |-> g[cell].character.hp * (ROWS * COLS) + RowMajor(cell)]
      target == SortCells(wounded, woundedKey)[1]
      healAmt == CHARACTERS[currentChar.id].atk
      \* enemies.sort by dist, stable over the row-major scan; [0]
      enemyKey == [cell \in Cells |-> Dist(cell) * (ROWS * COLS) + RowMajor(cell)]
      nearest == SortCells(enemies, enemyKey)[1]
      dmg == Damage(CHARACTERS[currentChar.id].atk, CHARACTERS[g[nearest].character.id].def)
  IN IF enemies = {} THEN g
     ELSE IF currentChar.id = "healer" /\ wounded # {} /\ Dist(target) <= HEAL_RANGE
     THEN [g EXCEPT ![target].character.hp = g[target].character.hp + healAmt]
     ELSE IF currentChar.id = "healer" /\ wounded # {}
     THEN moveToward(g, pos, target)
     ELSE IF Dist(nearest) <= 1
     THEN IF g[nearest].character.hp - dmg <= 0
          THEN [g EXCEPT ![nearest].character = NoChar]
          ELSE [g EXCEPT ![nearest].character.hp = g[nearest].character.hp - dmg]
     ELSE moveToward(g, pos, nearest)

\* executeCharAction that takes the last of the nearest enemies.
executeCharActionLastOnTie(g, pos) ==
  LET currentChar == g[pos].character
      Dist(cell) == hexDistance(pos[1], pos[2], cell[1], cell[2])
      enemies == {cell \in Living(g) : g[cell].character.owner # currentChar.owner}
      allies == {cell \in Living(g) :
                   g[cell].character.owner = currentChar.owner /\ cell # pos}
      wounded == {a \in allies : g[a].character.hp < g[a].character.maxHp}
      woundedKey == [cell \in Cells |-> g[cell].character.hp * (ROWS * COLS) + RowMajor(cell)]
      target == SortCells(wounded, woundedKey)[1]
      healAmt == CHARACTERS[currentChar.id].atk
      enemyKey == [cell \in Cells |-> Dist(cell) * (ROWS * COLS) - RowMajor(cell)]
      nearest == SortCells(enemies, enemyKey)[1]
      dmg == Damage(CHARACTERS[currentChar.id].atk, CHARACTERS[g[nearest].character.id].def)
  IN IF enemies = {} THEN g
     ELSE IF currentChar.id = "healer" /\ wounded # {} /\ Dist(target) <= HEAL_RANGE
     THEN [g EXCEPT ![target].character.hp =
                       Min(g[target].character.maxHp, g[target].character.hp + healAmt)]
     ELSE IF currentChar.id = "healer" /\ wounded # {}
     THEN moveToward(g, pos, target)
     ELSE IF Dist(nearest) <= 1
     THEN IF g[nearest].character.hp - dmg <= 0
          THEN [g EXCEPT ![nearest].character = NoChar]
          ELSE [g EXCEPT ![nearest].character.hp = g[nearest].character.hp - dmg]
     ELSE moveToward(g, pos, nearest)

\* executeCharAction whose heal is the healer's defence stat.
executeCharActionHealByDef(g, pos) ==
  LET currentChar == g[pos].character
      Dist(cell) == hexDistance(pos[1], pos[2], cell[1], cell[2])
      enemies == {cell \in Living(g) : g[cell].character.owner # currentChar.owner}
      allies == {cell \in Living(g) :
                   g[cell].character.owner = currentChar.owner /\ cell # pos}
      wounded == {a \in allies : g[a].character.hp < g[a].character.maxHp}
      woundedKey == [cell \in Cells |-> g[cell].character.hp * (ROWS * COLS) + RowMajor(cell)]
      target == SortCells(wounded, woundedKey)[1]
      healAmt == CHARACTERS[currentChar.id].def
      enemyKey == [cell \in Cells |-> Dist(cell) * (ROWS * COLS) + RowMajor(cell)]
      nearest == SortCells(enemies, enemyKey)[1]
      dmg == Damage(CHARACTERS[currentChar.id].atk, CHARACTERS[g[nearest].character.id].def)
  IN IF enemies = {} THEN g
     ELSE IF currentChar.id = "healer" /\ wounded # {} /\ Dist(target) <= HEAL_RANGE
     THEN [g EXCEPT ![target].character.hp =
                       Min(g[target].character.maxHp, g[target].character.hp + healAmt)]
     ELSE IF currentChar.id = "healer" /\ wounded # {}
     THEN moveToward(g, pos, target)
     ELSE IF Dist(nearest) <= 1
     THEN IF g[nearest].character.hp - dmg <= 0
          THEN [g EXCEPT ![nearest].character = NoChar]
          ELSE [g EXCEPT ![nearest].character.hp = g[nearest].character.hp - dmg]
     ELSE moveToward(g, pos, nearest)

\* executeCharAction that heals the nearest wounded ally.
executeCharActionHealsNearest(g, pos) ==
  LET currentChar == g[pos].character
      Dist(cell) == hexDistance(pos[1], pos[2], cell[1], cell[2])
      enemies == {cell \in Living(g) : g[cell].character.owner # currentChar.owner}
      allies == {cell \in Living(g) :
                   g[cell].character.owner = currentChar.owner /\ cell # pos}
      wounded == {a \in allies : g[a].character.hp < g[a].character.maxHp}
      woundedKey == [cell \in Cells |-> Dist(cell) * (ROWS * COLS) + RowMajor(cell)]
      target == SortCells(wounded, woundedKey)[1]
      healAmt == CHARACTERS[currentChar.id].atk
      enemyKey == [cell \in Cells |-> Dist(cell) * (ROWS * COLS) + RowMajor(cell)]
      nearest == SortCells(enemies, enemyKey)[1]
      dmg == Damage(CHARACTERS[currentChar.id].atk, CHARACTERS[g[nearest].character.id].def)
  IN IF enemies = {} THEN g
     ELSE IF currentChar.id = "healer" /\ wounded # {} /\ Dist(target) <= HEAL_RANGE
     THEN [g EXCEPT ![target].character.hp =
                       Min(g[target].character.maxHp, g[target].character.hp + healAmt)]
     ELSE IF currentChar.id = "healer" /\ wounded # {}
     THEN moveToward(g, pos, target)
     ELSE IF Dist(nearest) <= 1
     THEN IF g[nearest].character.hp - dmg <= 0
          THEN [g EXCEPT ![nearest].character = NoChar]
          ELSE [g EXCEPT ![nearest].character.hp = g[nearest].character.hp - dmg]
     ELSE moveToward(g, pos, nearest)

\* executeCharAction that runs the healer's branch before it looks for enemies.
executeCharActionHealsFirst(g, pos) ==
  LET currentChar == g[pos].character
      Dist(cell) == hexDistance(pos[1], pos[2], cell[1], cell[2])
      enemies == {cell \in Living(g) : g[cell].character.owner # currentChar.owner}
      allies == {cell \in Living(g) :
                   g[cell].character.owner = currentChar.owner /\ cell # pos}
      wounded == {a \in allies : g[a].character.hp < g[a].character.maxHp}
      woundedKey == [cell \in Cells |-> g[cell].character.hp * (ROWS * COLS) + RowMajor(cell)]
      target == SortCells(wounded, woundedKey)[1]
      healAmt == CHARACTERS[currentChar.id].atk
      enemyKey == [cell \in Cells |-> Dist(cell) * (ROWS * COLS) + RowMajor(cell)]
      nearest == SortCells(enemies, enemyKey)[1]
      dmg == Damage(CHARACTERS[currentChar.id].atk, CHARACTERS[g[nearest].character.id].def)
  IN IF currentChar.id = "healer" /\ wounded # {} /\ Dist(target) <= HEAL_RANGE
     THEN [g EXCEPT ![target].character.hp =
                       Min(g[target].character.maxHp, g[target].character.hp + healAmt)]
     ELSE IF currentChar.id = "healer" /\ wounded # {}
     THEN moveToward(g, pos, target)
     ELSE IF enemies = {} THEN g
     ELSE IF Dist(nearest) <= 1
     THEN IF g[nearest].character.hp - dmg <= 0
          THEN [g EXCEPT ![nearest].character = NoChar]
          ELSE [g EXCEPT ![nearest].character.hp = g[nearest].character.hp - dmg]
     ELSE moveToward(g, pos, nearest)

\* executeCharAction that counts the acting unit among its allies.
executeCharActionHealsItself(g, pos) ==
  LET currentChar == g[pos].character
      Dist(cell) == hexDistance(pos[1], pos[2], cell[1], cell[2])
      enemies == {cell \in Living(g) : g[cell].character.owner # currentChar.owner}
      allies == {cell \in Living(g) : g[cell].character.owner = currentChar.owner}
      wounded == {a \in allies : g[a].character.hp < g[a].character.maxHp}
      woundedKey == [cell \in Cells |-> g[cell].character.hp * (ROWS * COLS) + RowMajor(cell)]
      target == SortCells(wounded, woundedKey)[1]
      healAmt == CHARACTERS[currentChar.id].atk
      enemyKey == [cell \in Cells |-> Dist(cell) * (ROWS * COLS) + RowMajor(cell)]
      nearest == SortCells(enemies, enemyKey)[1]
      dmg == Damage(CHARACTERS[currentChar.id].atk, CHARACTERS[g[nearest].character.id].def)
  IN IF enemies = {} THEN g
     ELSE IF currentChar.id = "healer" /\ wounded # {} /\ Dist(target) <= HEAL_RANGE
     THEN [g EXCEPT ![target].character.hp =
                       Min(g[target].character.maxHp, g[target].character.hp + healAmt)]
     ELSE IF currentChar.id = "healer" /\ wounded # {}
     THEN moveToward(g, pos, target)
     ELSE IF Dist(nearest) <= 1
     THEN IF g[nearest].character.hp - dmg <= 0
          THEN [g EXCEPT ![nearest].character = NoChar]
          ELSE [g EXCEPT ![nearest].character.hp = g[nearest].character.hp - dmg]
     ELSE moveToward(g, pos, nearest)

executeCharAction(g, pos) ==
  LET currentChar == g[pos].character
      Dist(cell) == hexDistance(pos[1], pos[2], cell[1], cell[2])
      enemies == {cell \in Living(g) : g[cell].character.owner # currentChar.owner}
      allies == {cell \in Living(g) :
                   g[cell].character.owner = currentChar.owner /\ cell # pos}
      wounded == {a \in allies : g[a].character.hp < g[a].character.maxHp}
      \* wounded.sort by hp, stable over the row-major scan; [0]
      woundedKey == [cell \in Cells |-> g[cell].character.hp * (ROWS * COLS) + RowMajor(cell)]
      target == SortCells(wounded, woundedKey)[1]
      healAmt == CHARACTERS[currentChar.id].atk
      \* enemies.sort by dist, stable over the row-major scan; [0]
      enemyKey == [cell \in Cells |-> Dist(cell) * (ROWS * COLS) + RowMajor(cell)]
      nearest == SortCells(enemies, enemyKey)[1]
      dmg == Damage(CHARACTERS[currentChar.id].atk, CHARACTERS[g[nearest].character.id].def)
  IN IF enemies = {} THEN g
     ELSE IF currentChar.id = "healer" /\ wounded # {} /\ Dist(target) <= HEAL_RANGE
     THEN [g EXCEPT ![target].character.hp =
                       Min(g[target].character.maxHp, g[target].character.hp + healAmt)]
     ELSE IF currentChar.id = "healer" /\ wounded # {}
     THEN moveToward(g, pos, target)
     ELSE IF Dist(nearest) <= 1
     THEN IF g[nearest].character.hp - dmg <= 0
          THEN [g EXCEPT ![nearest].character = NoChar]
          ELSE [g EXCEPT ![nearest].character.hp = g[nearest].character.hp - dmg]
     ELSE moveToward(g, pos, nearest)

\* The action text returned with the grid, by its kind.
executeCharActionAction(g, pos) ==
  LET currentChar == g[pos].character
      Dist(cell) == hexDistance(pos[1], pos[2], cell[1], cell[2])
      enemies == {cell \in Living(g) : g[cell].character.owner # currentChar.owner}
      allies == {cell \in Living(g) :
                   g[cell].character.owner = currentChar.owner /\ cell # pos}
      wounded == {a \in allies : g[a].character.hp < g[a].character.maxHp}
      woundedKey == [cell \in Cells |-> g[cell].character.hp * (ROWS * COLS) + RowMajor(cell)]
      target == SortCells(wounded, woundedKey)[1]
      enemyKey == [cell \in Cells |-> Dist(cell) * (ROWS * COLS) + RowMajor(cell)]
      nearest == SortCells(enemies, enemyKey)[1]
  IN IF enemies = {} THEN "Idle"
     ELSE IF currentChar.id = "healer" /\ wounded # {} /\ Dist(target) <= HEAL_RANGE
     THEN "Healed"
     ELSE IF currentChar.id = "healer" /\ wounded # {}
     THEN moveTowardAction(g, pos, target, "Moving")
     ELSE IF Dist(nearest) <= 1
     THEN "Attacked"
     ELSE moveTowardAction(g, pos, nearest, "Moving")

\* The winner decided by checkWin, or "none" when both sides still live.
Alive(g, p) == \E cell \in Living(g) : g[cell].character.owner = p

checkWin(g) == ~Alive(g, 1) \/ ~Alive(g, 2)

\* checkWin naming the player left without units as the winner.
checkWinWinnerSwapped(g) ==
  IF ~Alive(g, 1) /\ ~Alive(g, 2) THEN NoPlayer
  ELSE IF ~Alive(g, 1) THEN 1 ELSE 2

checkWinWinner(g) ==
  IF ~Alive(g, 1) /\ ~Alive(g, 2) THEN NoPlayer
  ELSE IF ~Alive(g, 1) THEN 2 ELSE 1

\* ------------------------------------------------------------ derived
ownedCount(g, p) == Cardinality({cell \in Cells : g[cell].owner = p})
charOnBoard(g, p) ==
  Cardinality({cell \in Cells : g[cell].owner = p /\ ~IsEmpty(g, cell)})
maxUnits(g, p) == ownedCount(g, p)

isAdjacentToOwned(g, r, c, player) ==
  \E n \in SeqRange(getHexNeighbors(r, c)) : g[n].owner = player

\* The load without the fix-up of the units' owner.
ReloadGridKeepsOwner(saved) == saved

\* JSON round trip of the grid followed by the fix-ups of the load: owner is
\* overwritten by the cell's owner; maxHp, spawnOrder and strategy are present
\* in every stored character and are kept.
ReloadGrid(saved) ==
  [cell \in Cells |->
     IF saved[cell].character = NoChar THEN saved[cell]
     ELSE [saved[cell] EXCEPT !.character.owner = saved[cell].owner]]

SumHp(g, p) ==
  LET owned == {cell \in Cells : ~IsEmpty(g, cell) /\ g[cell].character.owner = p}
      keyed == SortCells(owned, [cell \in Cells |-> RowMajor(cell)])
      Sum[i \in 0 .. Len(keyed)] ==
        IF i = 0 THEN 0 ELSE Sum[i - 1] + g[keyed[i]].character.hp
  IN Sum[Len(keyed)]

\* The interest without the cap of maxGold.
InterestUncapped(g, cap) == g + (g \div 10) + STIPEND

Interest(g, cap) == Min(cap, g + (g \div 10) + STIPEND)

\* ------------------------------------------------------------------ state
VARIABLES
  grid,               \* useState grid
  gold,               \* useState gold
  step,               \* useState step: [type, player]
  currentTurn,        \* the "turn" search parameter
  hexBoughtThisTurn,  \* useState hexBoughtThisTurn
  popup,              \* useState popup: "none" | "buyHex" | "buyChar"
  popupHex,           \* useState popupHex (meaningful while popup # "none")
  execStepIndex,      \* useState execStepIndex
  execComplete,       \* useState execComplete
  winner,             \* useState winner (NoPlayer = null)
  spawnCounter,       \* useState spawnCounter
  savedGrid,          \* localStorage "gameGrid"
  savedGold,          \* localStorage "gameGold"
  execDoneGrid,       \* the grid closed over by the memoized handleExecDone
  gameSettings,       \* localStorage "gameSettings": [maxTurns, maxGold]
  enabledChars,       \* ids of the characters enabled in setup
  explore,            \* the bounds of the exploration: [maxSpawn, clickCells]
  spawnLog,           \* history: the spawnOrder given to each unit created, per owner
  acted,              \* history: uids that resolved an action in this executing step
  call                \* the last call of a helper made on its own: [fn, args, result]

vars == <<grid, gold, step, currentTurn, hexBoughtThisTurn, popup, popupHex,
          execStepIndex, execComplete, winner, spawnCounter, savedGrid, savedGold,
          execDoneGrid, gameSettings, enabledChars, explore, spawnLog, acted,
          call>>

Shopping(p) == [type |-> "shopping", player |-> p]
Executing(p) == [type |-> "executing", player |-> p]
GameOver == [type |-> "game_over", player |-> NoPlayer]

\* No helper has been called on its own.
NoCall == [fn |-> "none", args |-> <<>>, result |-> <<>>]

\* A fresh match: nothing stored but the settings.
InitMatch ==
  /\ grid = createInitialGrid
  /\ gold = [p \in Players |-> INITIAL_GOLD]
  /\ step = Shopping(1)
  /\ currentTurn = 1
  /\ hexBoughtThisTurn = [p \in Players |-> FALSE]
  /\ popup = "none"
  /\ popupHex = <<0, 0>>
  /\ execStepIndex = 0
  /\ execComplete = FALSE
  /\ winner = NoPlayer
  /\ spawnCounter = [p \in Players |-> 0]
  /\ savedGrid = createInitialGrid
  /\ savedGold = [p \in Players |-> INITIAL_GOLD]
  /\ execDoneGrid = createInitialGrid
  /\ spawnLog = [p \in Players |-> <<>>]
  /\ acted = <<>>
  /\ call = NoCall

Init ==
  /\ InitMatch
  /\ gameSettings = [maxTurns |-> MaxTurns, maxGold |-> MaxGold]
  /\ enabledChars = EnabledIds
  /\ explore = [maxSpawn |-> MaxSpawn, clickCells |-> ClickCells]

\* ------------------------------------------------------ shopping handlers
\* handleHexClick without the adjacency test.
handleHexClickNoAdjacency(r, c) ==
  /\ step.type = "shopping"
  /\ LET cell == grid[<<r, c>>]
         player == step.player
     IN IF cell.owner = NoPlayer
        THEN popup' = "buyHex" /\ popupHex' = <<r, c>>
        ELSE IF cell.owner = player /\ cell.character = NoChar
        THEN popup' = "buyChar" /\ popupHex' = <<r, c>>
        ELSE UNCHANGED <<popup, popupHex>>
  /\ UNCHANGED <<grid, gold, step, currentTurn, hexBoughtThisTurn, execStepIndex,
                 execComplete, winner, spawnCounter, savedGrid, savedGold,
                 execDoneGrid, spawnLog, acted>>
  /\ UNCHANGED <<gameSettings, enabledChars, explore, call>>

\* handleHexClick that offers a deployment on any owned empty cell.
handleHexClickAnyOwner(r, c) ==
  /\ step.type = "shopping"
  /\ LET cell == grid[<<r, c>>]
         player == step.player
     IN IF cell.owner = NoPlayer /\ isAdjacentToOwned(grid, r, c, player)
        THEN popup' = "buyHex" /\ popupHex' = <<r, c>>
        ELSE IF cell.owner # NoPlayer /\ cell.character = NoChar
        THEN popup' = "buyChar" /\ popupHex' = <<r, c>>
        ELSE UNCHANGED <<popup, popupHex>>
  /\ UNCHANGED <<grid, gold, step, currentTurn, hexBoughtThisTurn, execStepIndex,
                 execComplete, winner, spawnCounter, savedGrid, savedGold,
                 execDoneGrid, spawnLog, acted>>
  /\ UNCHANGED <<gameSettings, enabledChars, explore, call>>

\* A click on hex (r, c): opens the buy-hex or the buy-character popup, or
\* returns without effect.
handleHexClick(r, c) ==
  /\ step.type = "shopping"
  /\ LET cell == grid[<<r, c>>]
         player == step.player
     IN IF cell.owner = NoPlayer /\ isAdjacentToOwned(grid, r, c, player)
        THEN popup' = "buyHex" /\ popupHex' = <<r, c>>
        ELSE IF cell.owner = player /\ cell.character = NoChar
        THEN popup' = "buyChar" /\ popupHex' = <<r, c>>
        ELSE UNCHANGED <<popup, popupHex>>
  /\ UNCHANGED <<grid, gold, step, currentTurn, hexBoughtThisTurn, execStepIndex,
                 execComplete, winner, spawnCounter, savedGrid, savedGold,
                 execDoneGrid, spawnLog, acted>>
  /\ UNCHANGED <<gameSettings, enabledChars, explore, call>>

\* Cancel, or a click on the backdrop: setPopup(null).  The source keeps
\* popupHex, which nothing reads until the next click sets it again; the model
\* forgets it here.
closePopup ==
  /\ popup # "none"
  /\ popup' = "none"
  /\ popupHex' = <<0, 0>>
  /\ UNCHANGED <<grid, gold, step, currentTurn, hexBoughtThisTurn,
                 execStepIndex, execComplete, winner, spawnCounter, savedGrid,
                 savedGold, execDoneGrid, spawnLog, acted>>
  /\ UNCHANGED <<gameSettings, enabledChars, explore, call>>

\* buyHex without the test of hexBoughtThisTurn.
buyHexNoFlagCheck ==
  /\ popup = "buyHex"
  /\ step.type = "shopping"
  /\ LET player == step.player
     IN IF gold[player] < HEX_COST
        THEN UNCHANGED <<grid, gold, hexBoughtThisTurn, popup, popupHex>>
        ELSE /\ grid' = [grid EXCEPT ![popupHex].owner = player]
             /\ gold' = [gold EXCEPT ![player] = Max(0, gold[player] - HEX_COST)]
             /\ hexBoughtThisTurn' = [hexBoughtThisTurn EXCEPT ![player] = TRUE]
             /\ popup' = "none"
             /\ popupHex' = <<0, 0>>
  /\ UNCHANGED <<step, currentTurn, execStepIndex, execComplete, winner,
                 spawnCounter, savedGrid, savedGold, execDoneGrid, spawnLog, acted>>
  /\ UNCHANGED <<gameSettings, enabledChars, explore, call>>

\* buyHex that subtracts the cost without the test of the balance.
buyHexUnchecked ==
  /\ popup = "buyHex"
  /\ step.type = "shopping"
  /\ LET player == step.player
     IN IF hexBoughtThisTurn[player]
        THEN UNCHANGED <<grid, gold, hexBoughtThisTurn, popup, popupHex>>
        ELSE /\ grid' = [grid EXCEPT ![popupHex].owner = player]
             /\ gold' = [gold EXCEPT ![player] = gold[player] - HEX_COST]
             /\ hexBoughtThisTurn' = [hexBoughtThisTurn EXCEPT ![player] = TRUE]
             /\ popup' = "none"
             /\ popupHex' = <<0, 0>>
  /\ UNCHANGED <<step, currentTurn, execStepIndex, execComplete, winner,
                 spawnCounter, savedGrid, savedGold, execDoneGrid, spawnLog, acted>>
  /\ UNCHANGED <<gameSettings, enabledChars, explore, call>>

\* buyHex that charges the cost to both players.
buyHexChargesBoth ==
  /\ popup = "buyHex"
  /\ step.type = "shopping"
  /\ LET player == step.player
     IN IF hexBoughtThisTurn[player] \/ gold[player] < HEX_COST
        THEN UNCHANGED <<grid, gold, hexBoughtThisTurn, popup, popupHex>>
        ELSE /\ grid' = [grid EXCEPT ![popupHex].owner = player]
             /\ gold' = [p \in Players |-> Max(0, gold[p] - HEX_COST)]
             /\ hexBoughtThisTurn' = [hexBoughtThisTurn EXCEPT ![player] = TRUE]
             /\ popup' = "none"
             /\ popupHex' = <<0, 0>>
  /\ UNCHANGED <<step, currentTurn, execStepIndex, execComplete, winner,
                 spawnCounter, savedGrid, savedGold, execDoneGrid, spawnLog, acted>>
  /\ UNCHANGED <<gameSettings, enabledChars, explore, call>>

\* buyHex that marks the round's purchase before it tests the balance.
buyHexMarksBeforeGoldCheck ==
  /\ popup = "buyHex"
  /\ step.type = "shopping"
  /\ LET player == step.player
     IN IF hexBoughtThisTurn[player]
        THEN UNCHANGED <<grid, gold, hexBoughtThisTurn, popup, popupHex>>
        ELSE IF gold[player] < HEX_COST
        THEN /\ hexBoughtThisTurn' = [hexBoughtThisTurn EXCEPT ![player] = TRUE]
             /\ UNCHANGED <<grid, gold, popup, popupHex>>
        ELSE /\ grid' = [grid EXCEPT ![popupHex].owner = player]
             /\ gold' = [gold EXCEPT ![player] = Max(0, gold[player] - HEX_COST)]
             /\ hexBoughtThisTurn' = [hexBoughtThisTurn EXCEPT ![player] = TRUE]
             /\ popup' = "none"
             /\ popupHex' = <<0, 0>>
  /\ UNCHANGED <<step, currentTurn, execStepIndex, execComplete, winner,
                 spawnCounter, savedGrid, savedGold, execDoneGrid, spawnLog, acted>>
  /\ UNCHANGED <<gameSettings, enabledChars, explore, call>>

\* The BUY button of the buy-hex popup (rendered while popup = "buyHex" in a
\* shopping step).
buyHex ==
  /\ popup = "buyHex"
  /\ step.type = "shopping"
  /\ LET player == step.player
     IN IF hexBoughtThisTurn[player] \/ gold[player] < HEX_COST
        THEN UNCHANGED <<grid, gold, hexBoughtThisTurn, popup, popupHex>>
        ELSE /\ grid' = [grid EXCEPT ![popupHex].owner = player]
             /\ gold' = [gold EXCEPT ![player] = Max(0, gold[player] - HEX_COST)]
             /\ hexBoughtThisTurn' = [hexBoughtThisTurn EXCEPT ![player] = TRUE]
             /\ popup' = "none"
             /\ popupHex' = <<0, 0>>
  /\ UNCHANGED <<step, currentTurn, execStepIndex, execComplete, winner,
                 spawnCounter, savedGrid, savedGold, execDoneGrid, spawnLog, acted>>
  /\ UNCHANGED <<gameSettings, enabledChars, explore, call>>

\* placeCharacter that hands the new unit to the other player.
placeCharacterForOpponent(char) ==
  /\ popup = "buyChar"
  /\ step.type = "shopping"
  /\ LET player == step.player
         order == spawnCounter[player]
     IN IF gold[player] < CHARACTERS[char].cost
           \/ charOnBoard(grid, player) >= maxUnits(grid, player)
        THEN UNCHANGED <<grid, gold, spawnCounter, popup, popupHex, spawnLog>>
        ELSE /\ Len(spawnLog[player]) < explore.maxSpawn
             /\ grid' = [grid EXCEPT ![popupHex].character =
                           [id |-> char, hp |-> CHARACTERS[char].hp,
                            maxHp |-> CHARACTERS[char].hp, owner |-> 3 - player,
                            spawnOrder |-> order,
                            uid |-> Len(spawnLog[1]) + Len(spawnLog[2]) + 1]]
             /\ gold' = [gold EXCEPT ![player] = Max(0, gold[player] - CHARACTERS[char].cost)]
             /\ spawnCounter' = [spawnCounter EXCEPT ![player] = spawnCounter[player] + 1]
             /\ spawnLog' = [spawnLog EXCEPT ![player] = Append(spawnLog[player], order)]
             /\ popup' = "none"
             /\ popupHex' = <<0, 0>>
  /\ UNCHANGED <<step, currentTurn, hexBoughtThisTurn, execStepIndex, execComplete,
                 winner, savedGrid, savedGold, execDoneGrid, acted>>
  /\ UNCHANGED <<gameSettings, enabledChars, explore, call>>

\* A character button of the buy-character popup.
placeCharacter(char) ==
  /\ popup = "buyChar"
  /\ step.type = "shopping"
  /\ LET player == step.player
         order == spawnCounter[player]
     IN IF gold[player] < CHARACTERS[char].cost
           \/ charOnBoard(grid, player) >= maxUnits(grid, player)
        THEN UNCHANGED <<grid, gold, spawnCounter, popup, popupHex, spawnLog>>
        ELSE /\ Len(spawnLog[player]) < explore.maxSpawn
             /\ grid' = [grid EXCEPT ![popupHex].character =
                           [id |-> char, hp |-> CHARACTERS[char].hp,
                            maxHp |-> CHARACTERS[char].hp, owner |-> player,
                            spawnOrder |-> order,
                            uid |-> Len(spawnLog[1]) + Len(spawnLog[2]) + 1]]
             /\ gold' = [gold EXCEPT ![player] = Max(0, gold[player] - CHARACTERS[char].cost)]
             /\ spawnCounter' = [spawnCounter EXCEPT ![player] = spawnCounter[player] + 1]
             /\ spawnLog' = [spawnLog EXCEPT ![player] = Append(spawnLog[player], order)]
             /\ popup' = "none"
             /\ popupHex' = <<0, 0>>
  /\ UNCHANGED <<step, currentTurn, hexBoughtThisTurn, execStepIndex, execComplete,
                 winner, savedGrid, savedGold, execDoneGrid, acted>>
  /\ UNCHANGED <<gameSettings, enabledChars, explore, call>>

\* startExecution, with the render that follows: step is a new object, so the
\* memoized handleExecDone is rebuilt and closes over the grid of this render.
startExecution(player) ==
  /\ step' = Executing(player)
  /\ execStepIndex' = 0
  /\ execDoneGrid' = grid
  /\ acted' = <<>>

\* handleDone without the special case of turn 1.
handleDoneNoTurn1 ==
  /\ step.type = "shopping"
  /\ popup' = "none"
  /\ popupHex' = <<0, 0>>
  /\ savedGrid' = grid
  /\ savedGold' = gold
  /\ startExecution(step.player)
  /\ UNCHANGED <<grid, gold, currentTurn, hexBoughtThisTurn, execComplete, winner,
                 spawnCounter, spawnLog, gameSettings, enabledChars, explore, call>>

\* The Done button of a shopping step.
handleDone ==
  /\ step.type = "shopping"
  /\ popup' = "none"
  /\ popupHex' = <<0, 0>>
  /\ IF currentTurn = 1
     THEN IF step.player = 1
          THEN /\ hexBoughtThisTurn' = [hexBoughtThisTurn EXCEPT ![2] = FALSE]
               /\ step' = Shopping(2)
               /\ execDoneGrid' = grid
               /\ UNCHANGED <<savedGrid, savedGold, execStepIndex, acted>>
          ELSE /\ savedGrid' = grid
               /\ savedGold' = gold
               /\ startExecution(All)
               /\ UNCHANGED hexBoughtThisTurn
     ELSE /\ savedGrid' = grid
          /\ savedGold' = gold
          /\ startExecution(step.player)
          /\ UNCHANGED hexBoughtThisTurn
  /\ UNCHANGED <<grid, gold, currentTurn, execComplete, winner, spawnCounter, spawnLog>>
  /\ UNCHANGED <<gameSettings, enabledChars, explore, call>>

\* ------------------------------------------------------------- execution
\* executeStep that reports the step complete one call later: past the last
\* scheduled unit it advances the index once more without resolving anything.
executeStepCompletesLate ==
  /\ step.type = "executing"
  /\ ~execComplete
  /\ LET order == getExecutionOrder(grid, step.player, currentTurn)
     IN IF execStepIndex > Len(order)
        THEN /\ execComplete' = TRUE
             /\ UNCHANGED <<grid, step, execStepIndex, winner, execDoneGrid, acted>>
        ELSE IF execStepIndex = Len(order)
        THEN /\ execStepIndex' = execStepIndex + 1
             /\ UNCHANGED <<grid, step, execComplete, winner, execDoneGrid, acted>>
        ELSE LET pos == order[execStepIndex + 1]
                 newGrid == executeCharAction(grid, pos)
             IN /\ grid' = newGrid
                /\ execStepIndex' = execStepIndex + 1
                /\ acted' = Append(acted, grid[pos].character.uid)
                /\ IF checkWin(newGrid)
                   THEN /\ step' = GameOver
                        /\ winner' = checkWinWinner(newGrid)
                        /\ execDoneGrid' = newGrid
                   ELSE UNCHANGED <<step, winner, execDoneGrid>>
                /\ UNCHANGED execComplete
  /\ UNCHANGED <<gold, currentTurn, hexBoughtThisTurn, popup, popupHex,
                 spawnCounter, savedGrid, savedGold, spawnLog>>
  /\ UNCHANGED <<gameSettings, enabledChars, explore, call>>

\* STEP / the auto-run timer: resolve the next scheduled unit.  The order is
\* computed from the grid of this call and indexed by execStepIndex; order, pos
\* and newGrid are the constants of the call, each computed once.
executeStep ==
  /\ step.type = "executing"
  /\ ~execComplete
  /\ \E order \in {getExecutionOrder(grid, step.player, currentTurn)} :
        IF execStepIndex >= Len(order)
        THEN /\ execComplete' = TRUE
             /\ UNCHANGED <<grid, step, execStepIndex, winner, execDoneGrid, acted>>
        ELSE \E pos \in {order[execStepIndex + 1]} :
             \E newGrid \in {executeCharAction(grid, pos)} :
                /\ grid' = newGrid
                /\ execStepIndex' = execStepIndex + 1
                /\ acted' = Append(acted, grid[pos].character.uid)
                /\ IF checkWin(newGrid)
                   THEN /\ step' = GameOver
                        /\ winner' = checkWinWinner(newGrid)
                        /\ execDoneGrid' = newGrid
                   ELSE UNCHANGED <<step, winner, execDoneGrid>>
                /\ UNCHANGED execComplete
  /\ UNCHANGED <<gold, currentTurn, hexBoughtThisTurn, popup, popupHex,
                 spawnCounter, savedGrid, savedGold, spawnLog>>
  /\ UNCHANGED <<gameSettings, enabledChars, explore, call>>

\* goToNextTurn that ends the match one round early.
goToNextTurnOffByOne ==
  LET nextTurn == currentTurn + 1
      p1Hp == SumHp(execDoneGrid, 1)
      p2Hp == SumHp(execDoneGrid, 2)
      newGold == [p \in Players |-> Interest(gold[p], gameSettings.maxGold)]
  IN IF nextTurn >= gameSettings.maxTurns
     THEN /\ winner' = IF p1Hp > p2Hp THEN 1 ELSE IF p2Hp > p1Hp THEN 2 ELSE NoPlayer
          /\ step' = GameOver
          /\ execDoneGrid' = grid
          /\ UNCHANGED <<grid, gold, currentTurn, hexBoughtThisTurn, execStepIndex,
                         spawnCounter, savedGrid, savedGold>>
     ELSE /\ savedGold' = newGold
          /\ savedGrid' = execDoneGrid
          /\ currentTurn' = nextTurn
          /\ step' = Shopping(1)
          /\ hexBoughtThisTurn' = [p \in Players |-> FALSE]
          /\ execStepIndex' = 0
          /\ grid' = ReloadGrid(execDoneGrid)
          /\ spawnCounter' = [p \in Players |-> 0]
          /\ gold' = newGold
          /\ execDoneGrid' = ReloadGrid(execDoneGrid)
          /\ UNCHANGED winner

\* goToNextTurn that skips a round.
goToNextTurnSkipsRound ==
  LET nextTurn == currentTurn + 2
      p1Hp == SumHp(execDoneGrid, 1)
      p2Hp == SumHp(execDoneGrid, 2)
      newGold == [p \in Players |-> Interest(gold[p], gameSettings.maxGold)]
  IN IF nextTurn > gameSettings.maxTurns
     THEN /\ winner' = IF p1Hp > p2Hp THEN 1 ELSE IF p2Hp > p1Hp THEN 2 ELSE NoPlayer
          /\ step' = GameOver
          /\ execDoneGrid' = grid
          /\ UNCHANGED <<grid, gold, currentTurn, hexBoughtThisTurn, execStepIndex,
                         spawnCounter, savedGrid, savedGold>>
     ELSE /\ savedGold' = newGold
          /\ savedGrid' = execDoneGrid
          /\ currentTurn' = nextTurn
          /\ step' = Shopping(1)
          /\ hexBoughtThisTurn' = [p \in Players |-> FALSE]
          /\ execStepIndex' = 0
          /\ grid' = ReloadGrid(execDoneGrid)
          /\ spawnCounter' = [p \in Players |-> 0]
          /\ gold' = newGold
          /\ execDoneGrid' = ReloadGrid(execDoneGrid)
          /\ UNCHANGED winner

\* goToNextTurn whose turn-change effect leaves hexBoughtThisTurn as it is.
goToNextTurnKeepsFlags ==
  LET nextTurn == currentTurn + 1
      p1Hp == SumHp(execDoneGrid, 1)
      p2Hp == SumHp(execDoneGrid, 2)
      newGold == [p \in Players |-> Interest(gold[p], gameSettings.maxGold)]
  IN IF nextTurn > gameSettings.maxTurns
     THEN /\ winner' = IF p1Hp > p2Hp THEN 1 ELSE IF p2Hp > p1Hp THEN 2 ELSE NoPlayer
          /\ step' = GameOver
          /\ execDoneGrid' = grid
          /\ UNCHANGED <<grid, gold, currentTurn, hexBoughtThisTurn, execStepIndex,
                         spawnCounter, savedGrid, savedGold>>
     ELSE /\ savedGold' = newGold
          /\ savedGrid' = execDoneGrid
          /\ currentTurn' = nextTurn
          /\ step' = Shopping(1)
          /\ hexBoughtThisTurn' = hexBoughtThisTurn
          /\ execStepIndex' = 0
          /\ grid' = ReloadGrid(execDoneGrid)
          /\ spawnCounter' = [p \in Players |-> 0]
          /\ gold' = newGold
          /\ execDoneGrid' = ReloadGrid(execDoneGrid)
          /\ UNCHANGED winner

\* goToNextTurn as called from the memoized handleExecDone: its grid is
\* execDoneGrid.  gold is not changed while a step executes, so the gold it
\* closes over is the current one.  Past the round limit the match is resolved
\* by hp; otherwise interest is settled, the snapshot is stored, and the
\* navigation to the next turn runs the turn-change effect, which reloads it.
goToNextTurn ==
  LET nextTurn == currentTurn + 1
      p1Hp == SumHp(execDoneGrid, 1)
      p2Hp == SumHp(execDoneGrid, 2)
      newGold == [p \in Players |-> Interest(gold[p], gameSettings.maxGold)]
  IN IF nextTurn > gameSettings.maxTurns
     THEN /\ winner' = IF p1Hp > p2Hp THEN 1 ELSE IF p2Hp > p1Hp THEN 2 ELSE NoPlayer
          /\ step' = GameOver
          /\ execDoneGrid' = grid
          /\ UNCHANGED <<grid, gold, currentTurn, hexBoughtThisTurn, execStepIndex,
                         spawnCounter, savedGrid, savedGold>>
     ELSE /\ savedGold' = newGold
          /\ savedGrid' = execDoneGrid
          /\ currentTurn' = nextTurn
          /\ step' = Shopping(1)
          /\ hexBoughtThisTurn' = [p \in Players |-> FALSE]
          /\ execStepIndex' = 0
          /\ grid' = ReloadGrid(execDoneGrid)
          /\ spawnCounter' = [p \in Players |-> 0]
          /\ gold' = newGold
          /\ execDoneGrid' = ReloadGrid(execDoneGrid)
          /\ UNCHANGED winner

\* handleExecDone going to the next turn after player 1's execution already.
handleExecDoneSkipP2 ==
  /\ step.type = "executing"
  /\ execComplete
  /\ execComplete' = FALSE
  /\ goToNextTurn
  /\ UNCHANGED <<popup, popupHex, spawnLog, acted, gameSettings, enabledChars, explore, call>>

\* handleExecDone wired to a button that is shown in every phase.
handleExecDoneInEveryPhase ==
  /\ execComplete' = FALSE
  /\ IF currentTurn = 1
     THEN goToNextTurn
     ELSE IF step.type = "executing" /\ step.player = 1
          THEN /\ hexBoughtThisTurn' = [hexBoughtThisTurn EXCEPT ![2] = FALSE]
               /\ step' = Shopping(2)
               /\ execDoneGrid' = grid
               /\ UNCHANGED <<grid, gold, currentTurn, execStepIndex, winner,
                              spawnCounter, savedGrid, savedGold>>
          ELSE IF step.type = "executing"
          THEN goToNextTurn
          ELSE UNCHANGED <<grid, gold, step, currentTurn, hexBoughtThisTurn,
                           execStepIndex, winner, spawnCounter, savedGrid,
                           savedGold, execDoneGrid>>
  /\ UNCHANGED <<popup, popupHex, spawnLog, acted>>
  /\ UNCHANGED <<gameSettings, enabledChars, explore, call>>

\* The button shown once the executing step is complete.
handleExecDone ==
  /\ step.type = "executing"
  /\ execComplete
  /\ execComplete' = FALSE
  /\ IF currentTurn = 1
     THEN goToNextTurn
     ELSE IF step.player = 1
          THEN /\ hexBoughtThisTurn' = [hexBoughtThisTurn EXCEPT ![2] = FALSE]
               /\ step' = Shopping(2)
               /\ execDoneGrid' = grid
               /\ UNCHANGED <<grid, gold, currentTurn, execStepIndex, winner,
                              spawnCounter, savedGrid, savedGold>>
          ELSE goToNextTurn
  /\ UNCHANGED <<popup, popupHex, spawnLog, acted>>
  /\ UNCHANGED <<gameSettings, enabledChars, explore, call>>

Next ==
  \/ \E cell \in explore.clickCells : handleHexClick(cell[1], cell[2])
  \/ closePopup
  \/ buyHex
  \/ \E char \in enabledChars : placeCharacter(char)
  \/ handleDone
  \/ executeStep
  \/ handleExecDone

Spec == Init /\ [][Next]_vars

\* The match explored for the unit cap: only the cheapest template, one unit
\* more than the initial territory per player, one round less, and the clicks
\* of player 1 on its own territory and one hex next to it; player 2 deploys
\* on one cell.
CapSpawn == Cardinality(P1_INITIAL) + 1
CapCells == P1_INITIAL \cup {<<0, 0>>, <<ROWS - 2, COLS - 2>>}

InitCap ==
  /\ InitMatch
  /\ gameSettings = [maxTurns |-> MaxTurns - 1, maxGold |-> MaxGold]
  /\ enabledChars = {"warrior"}
  /\ explore = [maxSpawn |-> CapSpawn, clickCells |-> CapCells]

SpecCap == InitCap /\ [][Next]_vars

\* The same match over all MaxTurns rounds, in which player 2 buys the far
\* corner and deploys there: units deployed in one round move off their cells
\* in the next and are reloaded before the third.
SiegeCells == P1_INITIAL \cup {<<ROWS - 1, COLS - 1>>}

InitSiege ==
  /\ InitMatch
  /\ gameSettings = [maxTurns |-> MaxTurns, maxGold |-> MaxGold]
  /\ enabledChars = {"warrior"}
  /\ explore = [maxSpawn |-> CapSpawn, clickCells |-> SiegeCells]

SpecSiege == InitSiege /\ [][Next]_vars

\* The match explored for combat between different templates: two cells of
\* each camp and the free hex between them.
ArenaCells ==
  {<<1, 1>>, <<0, 2>>, <<1, 2>>, <<ROWS - 2, COLS - 2>>, <<ROWS - 3, COLS - 1>>}
ArenaIds == {"assassin", "healer"}

InitArena ==
  /\ InitMatch
  /\ gameSettings = [maxTurns |-> MaxTurns, maxGold |-> MaxGold]
  /\ enabledChars = ArenaIds
  /\ explore = [maxSpawn |-> MaxSpawn, clickCells |-> ArenaCells]

SpecArena == InitArena /\ [][Next]_vars

\* The match explored for the damage of a hit: warrior, tank and assassin on
\* two facing cells and the free hex next to both.
DuelCells == {<<1, 1>>, <<1, 2>>, <<ROWS - 2, COLS - 2>>}
DuelIds == {"warrior", "tank", "assassin"}

InitDuel ==
  /\ InitMatch
  /\ gameSettings = [maxTurns |-> MaxTurns, maxGold |-> MaxGold]
  /\ enabledChars = DuelIds
  /\ explore = [maxSpawn |-> MaxSpawn, clickCells |-> DuelCells]

SpecDuel == InitDuel /\ [][Next]_vars

\* The match explored over the settings of the setup page: every round limit
\* up to MaxTurns, and the gold caps MaxGold (below the initial gold) and
\* INITIAL_GOLD + STIPEND (which some settlements reach and others do not).
SettingsExplored ==
  [maxTurns : 1 .. MaxTurns, maxGold : {MaxGold, INITIAL_GOLD + STIPEND}]

InitSettings ==
  /\ InitMatch
  /\ gameSettings \in SettingsExplored
  /\ enabledChars = DuelIds
  /\ explore = [maxSpawn |-> MaxSpawn, clickCells |-> DuelCells]

SpecSettings == InitSettings /\ [][Next]_vars

\* The matches of every round limit up to MaxTurns when the players keep
\* pressing their buttons and the execution keeps being stepped: a Done button that stays on the page is
\* pressed, startExecution turns the auto-run on, whose timer calls executeStep
\* while the step executes, and the button that ends an executing step is
\* pressed once shown.
InitProgress ==
  /\ InitMatch
  /\ gameSettings \in [maxTurns : 1 .. MaxTurns, maxGold : {MaxGold}]
  /\ enabledChars = DuelIds
  /\ explore = [maxSpawn |-> MaxSpawn, clickCells |-> DuelCells]

SpecProgress ==
  /\ InitProgress
  /\ [][Next]_vars
  /\ WF_vars(handleDone)
  /\ WF_vars(executeStep)
  /\ WF_vars(handleExecDone)

\* ------------------------------------------------------------------- load
\* The page before the component is mounted: only localStorage and the URL
\* exist.  The other variables hold the values of a fresh match until mount
\* sets them.
Unmounted == [type |-> "unmounted", player |-> NoPlayer]

\* localStorage without "gameGrid" / without "gameGold".
NoSnapshot == [cell \in {} |-> NoChar]
NoGold == [p \in {} |-> 0]

\* parsed.length and parsed[0]?.length of a stored grid.
GridRows(saved) == Cardinality({cell[1] : cell \in DOMAIN saved})
GridCols(saved) == Cardinality({cell[2] : cell \in {c \in DOMAIN saved : c[1] = 0}})

\* A unit that an earlier session left in the snapshot.
StoredUnit == [id |-> "assassin", hp |-> 43, maxHp |-> CHARACTERS["assassin"].hp,
               owner |-> 1, spawnOrder |-> 0, uid |-> 2 * MaxSpawn + 1]

\* A snapshot of a board of rows x cols whose cell (1, 1) is player 1's and
\* holds a unit, and whose cell (rows - 2, cols - 2) is player 2's.
StoredGrid(rows, cols) ==
  [cell \in (0 .. rows - 1) \X (0 .. cols - 1) |->
     IF cell = <<1, 1>> THEN [owner |-> 1, character |-> StoredUnit]
     ELSE IF cell = <<rows - 2, cols - 2>> THEN [owner |-> 2, character |-> NoChar]
     ELSE [owner |-> NoPlayer, character |-> NoChar]]

\* What localStorage may hold at load: nothing, a snapshot of this board, or
\* one of a board with one row less or one column more.
StoredGrids ==
  {NoSnapshot, StoredGrid(ROWS, COLS), StoredGrid(ROWS - 1, COLS),
   StoredGrid(ROWS, COLS + 1)}
StoredGolds == {NoGold, [p \in Players |-> INITIAL_GOLD], <<7, 12>>}

InitLoad ==
  /\ step = Unmounted
  /\ savedGrid \in StoredGrids
  /\ savedGold \in StoredGolds
  /\ currentTurn \in 1 .. MaxTurns
  /\ grid = createInitialGrid
  /\ gold = [p \in Players |-> INITIAL_GOLD]
  /\ hexBoughtThisTurn = [p \in Players |-> FALSE]
  /\ popup = "none"
  /\ popupHex = <<0, 0>>
  /\ execStepIndex = 0
  /\ execComplete = FALSE
  /\ winner = NoPlayer
  /\ spawnCounter = [p \in Players |-> 0]
  /\ execDoneGrid = createInitialGrid
  /\ spawnLog = [p \in Players |-> <<>>]
  /\ acted = <<>>
  /\ call = NoCall
  /\ gameSettings = [maxTurns |-> MaxTurns, maxGold |-> MaxGold]
  /\ enabledChars = DuelIds
  /\ explore = [maxSpawn |-> 1, clickCells |-> DuelCells]

\* The useState initializers of the first render, in their order: grid (which
\* removes a snapshot of other dimensions), gold, the step and its flags, and
\* spawnCounter, which counts the units of the snapshot still stored.
mount ==
  /\ step = Unmounted
  /\ LET matches == /\ savedGrid # NoSnapshot
                    /\ GridRows(savedGrid) = ROWS
                    /\ GridCols(savedGrid) = COLS
     IN /\ grid' = IF matches THEN ReloadGrid(savedGrid) ELSE createInitialGrid
        /\ execDoneGrid' = IF matches THEN ReloadGrid(savedGrid) ELSE createInitialGrid
        /\ savedGrid' = IF matches THEN savedGrid ELSE NoSnapshot
        /\ spawnCounter' =
             [p \in Players |->
                IF matches
                THEN Cardinality({cell \in Cells : /\ savedGrid[cell].character # NoChar
                                                   /\ savedGrid[cell].owner = p})
                ELSE 0]
  /\ gold' = IF savedGold # NoGold THEN savedGold
             ELSE [p \in Players |-> INITIAL_GOLD]
  /\ step' = Shopping(1)
  /\ hexBoughtThisTurn' = [p \in Players |-> FALSE]
  /\ popup' = "none"
  /\ popupHex' = <<0, 0>>
  /\ execStepIndex' = 0
  /\ execComplete' = FALSE
  /\ winner' = NoPlayer
  /\ UNCHANGED <<currentTurn, savedGold, gameSettings, enabledChars, explore,
                 spawnLog, acted, call>>

NextLoad ==
  \/ mount
  \/ Next

SpecLoad == InitLoad /\ [][NextLoad]_vars

\* ------------------------------------------------- helpers on their own
\* The module-level functions of the page are pure; here they are called on
\* their own, one call at a time, on arguments drawn from the board, and `call`
\* keeps the arguments and what the function returned.
gameVars == <<grid, gold, step, currentTurn, hexBoughtThisTurn, popup, popupHex,
              execStepIndex, execComplete, winner, spawnCounter, savedGrid,
              savedGold, execDoneGrid, gameSettings, enabledChars, explore,
              spawnLog, acted>>

\* The flat-top version of the page (even-q offset, column parity), with its
\* validity mask: every cell of the board is valid.
BOARD_LAYOUT == [cell \in Cells |-> 1]

NeighborOffsetsFlat(c) ==
  IF c % 2 = 0
  THEN << <<-1, 0>>, <<1, 0>>, <<0, -1>>, <<0, 1>>, <<1, -1>>, <<1, 1>> >>
  ELSE << <<-1, 0>>, <<1, 0>>, <<-1, -1>>, <<-1, 1>>, <<0, -1>>, <<0, 1>> >>

getHexNeighborsFlat(r, c) ==
  SelectSeq([i \in 1 .. 6 |-> <<r + NeighborOffsetsFlat(c)[i][1],
                                 c + NeighborOffsetsFlat(c)[i][2]>>],
            LAMBDA n : InBounds(n[1], n[2]) /\ BOARD_LAYOUT[n] # 0)

toCubeXFlat(r, c) == c
toCubeZFlat(r, c) == r - ((c + (c % 2)) \div 2)
toCubeYFlat(r, c) == (- toCubeXFlat(r, c)) - toCubeZFlat(r, c)

hexDistanceFlat(r1, c1, r2, c2) ==
  Max(Max(Abs(toCubeXFlat(r1, c1) - toCubeXFlat(r2, c2)),
          Abs(toCubeYFlat(r1, c1) - toCubeYFlat(r2, c2))),
      Abs(toCubeZFlat(r1, c1) - toCubeZFlat(r2, c2)))

Layouts == {"pointy", "flat"}

neighbors(layout, cell) ==
  IF layout = "pointy" THEN getHexNeighbors(cell[1], cell[2])
  ELSE getHexNeighborsFlat(cell[1], cell[2])

distance(layout, a, b) ==
  IF layout = "pointy" THEN hexDistance(a[1], a[2], b[1], b[2])
  ELSE hexDistanceFlat(a[1], a[2], b[1], b[2])

\* hexDistance called on the pairs of three cells.
callHexDistance(layout, a, b, c) ==
  /\ call = NoCall
  /\ call' = [fn |-> "hexDistance", args |-> <<layout, a, b, c>>,
              result |-> [aa |-> distance(layout, a, a),
                          ab |-> distance(layout, a, b),
                          ba |-> distance(layout, b, a),
                          bc |-> distance(layout, b, c),
                          ac |-> distance(layout, a, c)]]
  /\ UNCHANGED gameVars

\* getHexNeighbors called on a cell.
callGetHexNeighbors(layout, c) ==
  /\ call = NoCall
  /\ call' = [fn |-> "getHexNeighbors", args |-> <<layout, c>>,
              result |-> neighbors(layout, c)]
  /\ UNCHANGED gameVars

\* The call has returned and its result has been used.
endCall ==
  /\ call # NoCall
  /\ call' = NoCall
  /\ UNCHANGED gameVars

NextHex ==
  \/ /\ call = NoCall
     /\ \E layout \in Layouts : \E a, b, c \in Cells : callHexDistance(layout, a, b, c)
  \/ /\ call = NoCall
     /\ \E layout \in Layouts : \E c \in Cells : callGetHexNeighbors(layout, c)
  \/ endCall

SpecHex == Init /\ [][NextHex]_vars

\* The grids handed to getExecutionOrder: on each of four cells no unit, or a
\* warrior of either player with spawnOrder 0 or 1 (the same spawnOrder can
\* occur twice for one owner).
OrderCells == {<<0, 1>>, <<1, 1>>, <<ROWS - 2, COLS - 2>>, <<ROWS - 1, COLS - 2>>}
OrderOptions == {<<NoPlayer, 0>>} \cup (Players \X (0 .. 1))

OrderGrid(f) ==
  [cell \in Cells |->
     IF cell \in OrderCells /\ f[cell][1] # NoPlayer
     THEN [owner |-> createInitialGrid[cell].owner,
           character |-> [id |-> "warrior", hp |-> CHARACTERS["warrior"].hp,
                          maxHp |-> CHARACTERS["warrior"].hp, owner |-> f[cell][1],
                          spawnOrder |-> f[cell][2], uid |-> RowMajor(cell) + 1]]
     ELSE createInitialGrid[cell]]

\* getExecutionOrder called on a grid, a player filter and a round index.
callGetExecutionOrder(g, playerFilter, turn) ==
  /\ call = NoCall
  /\ call' = [fn |-> "getExecutionOrder", args |-> <<g, playerFilter, turn>>,
              result |-> getExecutionOrder(g, playerFilter, turn)]
  /\ UNCHANGED gameVars

NextOrder ==
  \/ /\ call = NoCall
     /\ \E f \in [OrderCells -> OrderOptions] :
          \E playerFilter \in Players \cup {All} : \E turn \in 1 .. MaxTurns :
            callGetExecutionOrder(OrderGrid(f), playerFilter, turn)
  \/ endCall

SpecOrder == Init /\ [][NextOrder]_vars

\* The grids handed to the resolver: the actor, an assassin or a healer of
\* player 1 (at full hp, and the healer also wounded), in the corner or inside
\* the board, and up to MaxOthers
\* units on the cells around it and on two far cells: enemies at full hp and
\* nearly dead, allies wounded and unhurt.
ActorCells == {<<0, 0>>, <<1, 1>>}
ActorIds == {"assassin", "healer"}
SceneCells ==
  {<<0, 1>>, <<0, 2>>, <<1, 0>>, <<1, 2>>, <<2, 1>>, <<2, 2>>,
   <<0, COLS - 1>>, <<ROWS - 1, COLS - 1>>}
SceneTemplates ==
  { [owner |-> 2, id |-> "assassin", hp |-> 70],
    [owner |-> 2, id |-> "assassin", hp |-> 10],
    [owner |-> 1, id |-> "healer", hp |-> 40],
    [owner |-> 1, id |-> "warrior", hp |-> 115],
    [owner |-> 1, id |-> "warrior", hp |-> 120] }
ScenePlacements == {S \in SUBSET SceneCells : Cardinality(S) <= MaxOthers}

SceneGrid(a, id, f) ==
  [cell \in Cells |->
     IF cell = a
     THEN [owner |-> createInitialGrid[cell].owner,
           character |-> [id |-> id, hp |-> CHARACTERS[id].hp,
                          maxHp |-> CHARACTERS[id].hp, owner |-> 1,
                          spawnOrder |-> 0, uid |-> RowMajor(cell) + 1]]
     ELSE IF cell \in DOMAIN f
     THEN [owner |-> createInitialGrid[cell].owner,
           character |-> [id |-> f[cell].id, hp |-> f[cell].hp,
                          maxHp |-> CHARACTERS[f[cell].id].hp,
                          owner |-> f[cell].owner,
                          spawnOrder |-> 0, uid |-> RowMajor(cell) + 1]]
     ELSE createInitialGrid[cell]]

\* The same grids with a healer as the actor that is itself wounded (40/90).
WoundedHealerGrid(a, f) ==
  [cell \in Cells |->
     IF cell = a
     THEN [owner |-> createInitialGrid[cell].owner,
           character |-> [id |-> "healer", hp |-> 40,
                          maxHp |-> CHARACTERS["healer"].hp, owner |-> 1,
                          spawnOrder |-> 0, uid |-> RowMajor(cell) + 1]]
     ELSE SceneGrid(a, "healer", f)[cell]]

\* executeCharAction called for the unit on pos.
callExecuteCharAction(g, pos) ==
  /\ call = NoCall
  /\ call' = [fn |-> "executeCharAction", args |-> <<g, pos>>,
              result |-> executeCharAction(g, pos),
              action |-> executeCharActionAction(g, pos)]
  /\ UNCHANGED gameVars

\* moveToward called for the unit on from and the unit on to.
callMoveToward(g, from, to) ==
  /\ call = NoCall
  /\ call' = [fn |-> "moveToward", args |-> <<g, from, to>>,
              result |-> [grid |-> moveToward(g, from, to),
                          action |-> moveTowardAction(g, from, to, "Moving")]]
  /\ UNCHANGED gameVars

NextResolver ==
  \/ /\ call = NoCall
     /\ \E a \in ActorCells : \E id \in ActorIds :
          \E S \in ScenePlacements : \E f \in [S -> SceneTemplates] :
            callExecuteCharAction(SceneGrid(a, id, f), a)
  \/ /\ call = NoCall
     /\ \E a \in ActorCells :
          \E S \in ScenePlacements : \E f \in [S -> SceneTemplates] :
            callExecuteCharAction(WoundedHealerGrid(a, f), a)
  \/ /\ call = NoCall
     /\ \E a \in ActorCells :
          \E S \in ScenePlacements : \E f \in [S -> SceneTemplates] :
            \E to \in S : callMoveToward(SceneGrid(a, "assassin", f), a, to)
  \/ endCall

SpecResolver == Init /\ [][NextResolver]_vars

\* ------------------------------------------------------------------ claims
\* C1: in round 1 the steps follow Shopping(1) -> Shopping(2) -> Executing(all)
\* -> round end: player 1's done leads to Shopping(2) with no execution in
\* between, player 2's done leads to Executing(all), and only the completed
\* execution leads to the next round; a win may end the match instead.
C1_Round1Schedule ==
  [][currentTurn = 1 =>
       /\ step \in {Shopping(1), Shopping(2), Executing(All), GameOver}
       /\ step = Shopping(1) => /\ step' \in {Shopping(1), Shopping(2)}
                                /\ currentTurn' = 1
       /\ step = Shopping(2) => /\ step' \in {Shopping(2), Executing(All)}
                                /\ currentTurn' = 1
       /\ step = Executing(All) =>
            \/ step' = Executing(All) /\ currentTurn' = 1
            \/ step' = GameOver /\ currentTurn' = 1
            \/ execComplete /\ currentTurn' = 2 /\ step' = Shopping(1)
       /\ step = GameOver => step' = GameOver /\ currentTurn' = 1]_vars

\* Round 1 went through both shopping steps and the execution of all units.
C1_Witness ==
  currentTurn = 1 /\ step = Executing(All) /\ execComplete /\ Len(acted) >= 2

\* C2: in every round after the first the steps follow Shopping(1) ->
\* Executing(1) -> Shopping(2) -> Executing(2) -> round end; Executing(all)
\* never occurs after round 1, and a new round always starts in Shopping(1).
C2_LaterRoundsSchedule ==
  [][/\ currentTurn > 1 =>
          /\ step \in {Shopping(1), Shopping(2), Executing(1), Executing(2), GameOver}
          /\ step = Shopping(1) => /\ step' \in {Shopping(1), Executing(1)}
                                   /\ currentTurn' = currentTurn
          /\ step = Executing(1) =>
               /\ currentTurn' = currentTurn
               /\ \/ step' \in {Executing(1), GameOver}
                  \/ execComplete /\ step' = Shopping(2)
          /\ step = Shopping(2) => /\ step' \in {Shopping(2), Executing(2)}
                                   /\ currentTurn' = currentTurn
          /\ step = Executing(2) =>
               \/ step' \in {Executing(2), GameOver} /\ currentTurn' = currentTurn
               \/ execComplete /\ currentTurn' = currentTurn + 1 /\ step' = Shopping(1)
          /\ step = GameOver => step' = GameOver /\ currentTurn' = currentTurn
     /\ currentTurn' # currentTurn =>
          currentTurn' = currentTurn + 1 /\ step' = Shopping(1)]_vars

\* Round 2 ran its four steps and round 3 has started.
C2_Witness ==
  currentTurn = 3 /\ step = Shopping(1) /\ Len(spawnLog[1]) > 0 /\ Len(spawnLog[2]) > 0

\* The cells whose owner differs between the two states of a step.
NewlyOwned(p) == {cell \in Cells : grid'[cell].owner = p /\ grid[cell].owner # p}

\* C3: at most one territory purchase per player per round: once a player has
\* bought a hex in a round (which sets the player's flag), the player gains no
\* further hex while the round lasts, whatever the gold.
C3_OnePurchasePerRound ==
  [][\A p \in Players :
       /\ NewlyOwned(p) # {} => ~hexBoughtThisTurn[p] /\ hexBoughtThisTurn'[p]
       /\ (hexBoughtThisTurn[p] /\ currentTurn' = currentTurn) =>
            hexBoughtThisTurn'[p] /\ NewlyOwned(p) = {}]_vars

\* A second purchase is attempted in the round, with gold enough to pay it.
C3_Witness ==
  /\ step.type = "shopping"
  /\ popup = "buyHex"
  /\ hexBoughtThisTurn[step.player]
  /\ gold[step.player] >= HEX_COST
  /\ ENABLED buyHex

\* The units on the grid whose owner is p and that the filter of the step selects.
ScheduledLiving ==
  {cell \in Living(grid) :
     step.player = All \/ grid[cell].character.owner = step.player}

\* C4: each unit gets exactly one resolved action per executing step: no unit
\* resolves two actions, and when the step is reported complete every living
\* unit the filter selects has resolved one.
C4_OneActionPerUnit ==
  /\ \A i, j \in 1 .. Len(acted) : i # j => acted[i] # acted[j]
  /\ (step.type = "executing" /\ execComplete) =>
       \A cell \in ScheduledLiving : grid[cell].character.uid \in SeqRange(acted)

\* What the claim compares of a cell: its owner and the unit standing on it.
Standing(g) ==
  [cell \in Cells |->
     [owner |-> g[cell].owner, id |-> g[cell].character.id,
      hp |-> g[cell].character.hp, uid |-> g[cell].character.uid]]

\* C5: a round end that does not end the match re-enters Shopping(1) of the
\* next round with the grid as it stood at the end of the last executing step
\* (unit positions, hp, removed units, cell owners) and the post-interest gold.
C5_RoundEndKeepsGrid ==
  [][currentTurn' # currentTurn =>
       /\ step' = Shopping(1)
       /\ Standing(grid') = Standing(grid)
       /\ savedGrid' = grid
       /\ gold' = [p \in Players |->
                     Min(gameSettings.maxGold, gold[p] + (gold[p] \div 10) + 5)]
       /\ savedGold' = gold']_vars

\* C6: the spawnOrder values given to the units created for one owner are
\* strictly increasing in creation order (hence pairwise distinct), over the
\* whole match.
C6_SpawnOrderIncreasing ==
  \A p \in Players :
    \A i, j \in 1 .. Len(spawnLog[p]) : i < j => spawnLog[p][i] < spawnLog[p][j]

\* C7: a cell holds a unit only if the cell's owner equals the unit's owner.
C7_OccupantOnOwnCell ==
  \A cell \in Cells :
    ~IsEmpty(grid, cell) => grid[cell].owner = grid[cell].character.owner

\* C8: a player's gold is never negative.
C8_GoldNonNegative == \A p \in Players : gold[p] >= 0

\* A purchase is on the table that the player cannot pay.
C8_Witness ==
  /\ step.type = "shopping"
  /\ popup = "buyHex"
  /\ ~hexBoughtThisTurn[step.player]
  /\ gold[step.player] < HEX_COST
  /\ gold[step.player] < INITIAL_GOLD

\* C9: a hex changes owner only by a purchase of the shopping player that
\* meets all four conditions: the hex is unowned, the player has not bought a
\* hex this round, the player's gold covers the cost, and the hex is adjacent
\* to a hex the player owns.
C9_BuyTerritoryGuards ==
  [][\A cell \in Cells :
       grid'[cell].owner # grid[cell].owner =>
         /\ step.type = "shopping"
         /\ grid'[cell].owner = step.player
         /\ grid[cell].owner = NoPlayer
         /\ ~hexBoughtThisTurn[step.player]
         /\ gold[step.player] >= HEX_COST
         /\ \E n \in Cells :
              /\ hexDistance(cell[1], cell[2], n[1], n[2]) = 1
              /\ grid[n].owner = step.player]_vars

\* Player 1 has bought the corner hex, which player 2 is not adjacent to, and
\* player 2 is shopping.
C9_Witness ==
  /\ step = Shopping(2)
  /\ grid[<<0, 0>>].owner = 1
  /\ ~isAdjacentToOwned(grid, ROWS - 1, COLS - 1, 1)
  /\ grid[<<ROWS - 1, COLS - 1>>].owner = NoPlayer

\* C10: a successful purchase sets the hex's owner to the buyer, takes exactly
\* the hex cost from the buyer's gold, sets the buyer's flag, and changes
\* nothing else: the other player's gold and flag, the other hexes' owners, and
\* every occupant.
C10_BuyTerritoryEffect ==
  [][\A cell \in Cells :
       grid'[cell].owner # grid[cell].owner =>
         LET buyer == step.player
         IN /\ grid' = [grid EXCEPT ![cell].owner = buyer]
            /\ gold' = [gold EXCEPT ![buyer] = gold[buyer] - HEX_COST]
            /\ hexBoughtThisTurn' = [hexBoughtThisTurn EXCEPT ![buyer] = TRUE]
            /\ UNCHANGED <<step, currentTurn, spawnCounter, winner>>]_vars

\* Round 1: player 1 held 20 gold, bought one hex and now holds 17.
C10_Witness ==
  /\ currentTurn = 1
  /\ step = Shopping(1)
  /\ ownedCount(grid, 1) = Cardinality(P1_INITIAL) + 1
  /\ gold[1] = INITIAL_GOLD - HEX_COST
  /\ gold[1] = 17
  /\ hexBoughtThisTurn[1]
  /\ spawnLog[1] = <<>>

\* A step of a shopping state that changes the occupant of some cell.
OccupantChanges ==
  /\ step.type = "shopping"
  /\ currentTurn' = currentTurn
  /\ \E cell \in Cells : grid'[cell].character # grid[cell].character

\* The step puts a new unit of template char on cell for the shopping player,
\* under the four guards and with the effects of a deployment; the spawnOrder
\* of the new unit is left to the caller.
DeploysOn(cell, char) ==
  LET p == step.player
      unit == grid'[cell].character
  IN /\ grid[cell].owner = p
     /\ grid[cell].character = NoChar
     /\ gold[p] >= CHARACTERS[char].cost
     /\ Cardinality({c \in Cells : grid[c].owner = p /\ grid[c].character # NoChar})
          < Cardinality({c \in Cells : grid[c].owner = p})
     /\ gold' = [gold EXCEPT ![p] = gold[p] - CHARACTERS[char].cost]
     /\ unit.id = char
     /\ unit.owner = p
     /\ unit.hp = CHARACTERS[char].hp
     /\ unit.maxHp = CHARACTERS[char].hp
     /\ grid'[cell].owner = p
     /\ \A other \in Cells \ {cell} : grid'[other] = grid[other]

\* C11: a unit appears on a cell during shopping only by a deployment that meets
\* the four guards (cell owned by the player, cell empty, gold covers the cost,
\* occupied count below owned count); the deployment takes exactly the cost,
\* leaves every other cell and occupant as it was, and the new unit has the
\* template's hp as hp and maxHp, the player as owner, and the player's next
\* spawnOrder: the number of units created for the player before it.
C11_DeployUnit ==
  [][OccupantChanges =>
       \E cell \in Cells, char \in enabledChars :
         /\ DeploysOn(cell, char)
         /\ grid'[cell].character.spawnOrder = Len(spawnLog[step.player])]_vars

\* The same without the clause on spawnOrder: guards and effects of a deployment.
DeployGuardsAndEffects ==
  [][OccupantChanges =>
       \E cell \in Cells, char \in enabledChars : DeploysOn(cell, char)]_vars

\* The purchase on the table is one the claim calls rejected: a second
\* territory purchase in the round, or gold below the hex cost.
BuyIsRejected ==
  hexBoughtThisTurn[step.player] \/ gold[step.player] < HEX_COST

\* The deployment of char is one the claim calls rejected: gold below the
\* template's cost, or every owned cell occupied.
DeployIsRejected(char) ==
  \/ gold[step.player] < CHARACTERS[char].cost
  \/ Cardinality({c \in Cells : grid[c].owner = step.player /\ grid[c].character # NoChar})
       >= Cardinality({c \in Cells : grid[c].owner = step.player})

\* The click on cell is one the claim calls rejected: the cell belongs to the
\* other player, or is unowned and touches no cell of the player, or is the
\* player's and occupied.
ClickIsRejected(cell) ==
  \/ grid[cell].owner \notin {NoPlayer, step.player}
  \/ /\ grid[cell].owner = NoPlayer
     /\ \A n \in Cells : hexDistance(cell[1], cell[2], n[1], n[2]) = 1
                           => grid[n].owner # step.player
  \/ grid[cell].owner = step.player /\ grid[cell].character # NoChar

\* What a rejected shopping action must leave alone.
NothingBought ==
  UNCHANGED <<grid, gold, hexBoughtThisTurn, spawnCounter, step, currentTurn,
              savedGrid, savedGold, winner>>

\* C12: a rejected shopping action (a click on a non-adjacent, foreign or
\* occupied cell, a second territory purchase in the round, a purchase or a
\* deployment the gold does not cover, a deployment with every owned cell
\* occupied) leaves the grid, both balances, the flags and the spawn counters
\* unchanged and the match in the same shopping state.
C12_RejectedActionChangesNothing ==
  [][/\ (buyHex /\ BuyIsRejected) => NothingBought
     /\ \A char \in enabledChars :
          (placeCharacter(char) /\ DeployIsRejected(char)) => NothingBought
     /\ \A cell \in explore.clickCells :
          (handleHexClick(cell[1], cell[2]) /\ ClickIsRejected(cell))
            => NothingBought /\ UNCHANGED <<popup, popupHex>>]_vars

\* A deployment is on the table that the player's gold does not cover, after
\* the player has bought a hex this round (so a second purchase is rejected too).
C12_Witness ==
  /\ step.type = "shopping"
  /\ popup = "buyChar"
  /\ hexBoughtThisTurn[step.player]
  /\ \E char \in enabledChars : gold[step.player] < CHARACTERS[char].cost
  /\ \E cell \in explore.clickCells : ClickIsRejected(cell)

\* The units on the grid whose owner is p.
UnitsOf(p) == {cell \in Cells : grid[cell].character # NoChar
                                 /\ grid[cell].character.owner = p}

\* C13: for each player, the occupied cells among the cells the player owns,
\* and the units the player has on the grid, are never more than the cells
\* the player owns; no deployment pushes either count above the territory.
C13_UnitCap ==
  \A p \in Players :
    LET owned == {cell \in Cells : grid[cell].owner = p}
    IN /\ Cardinality({cell \in owned : grid[cell].character # NoChar})
            <= Cardinality(owned)
       /\ Cardinality(UnitsOf(p)) <= Cardinality(owned)

\* Player 1 has bought a hex and filled its whole territory with units.
C13_Witness ==
  /\ Cardinality({cell \in Cells : grid[cell].owner = 1}) = Cardinality(P1_INITIAL) + 1
  /\ Cardinality(UnitsOf(1)) = Cardinality(P1_INITIAL) + 1
  /\ \A cell \in UnitsOf(1) : grid[cell].owner = 1

\* C14: every unit on the grid has 0 < hp <= maxHp: a heal is capped at maxHp
\* and a unit whose hp would reach 0 or less is taken off its cell by the action
\* that hits it.
C14_HpWithinBounds ==
  \A cell \in Cells :
    grid[cell].character # NoChar =>
      /\ grid[cell].character.hp > 0
      /\ grid[cell].character.hp <= grid[cell].character.maxHp

\* An executing step in which a unit has been killed and taken off the grid,
\* while a wounded unit stands on it.
C14_Witness ==
  /\ step.type = "executing"
  /\ Len(acted) > 0
  /\ Cardinality({cell \in Cells : grid[cell].character # NoChar})
       < Len(spawnLog[1]) + Len(spawnLog[2])
  /\ \E cell \in Cells : /\ grid[cell].character # NoChar
                         /\ grid[cell].character.hp < grid[cell].character.maxHp

\* The step resolves the action of one unit (the scheduler appends its uid).
ResolvesAction == Len(acted') = Len(acted) + 1

\* The cell of the unit whose action the step resolves.
ActingCell ==
  CHOOSE cell \in Cells : /\ grid[cell].character # NoChar
                          /\ grid[cell].character.uid = acted'[Len(acted')]

\* The unit on cell, an enemy of the acting unit, has another hp after the
\* step, or has left the grid.
IsHit(cell) ==
  /\ grid[cell].character # NoChar
  /\ grid[cell].character.owner # grid[ActingCell].character.owner
  /\ \/ /\ grid'[cell].character # NoChar
        /\ grid'[cell].character.uid = grid[cell].character.uid
        /\ grid'[cell].character.hp # grid[cell].character.hp
     \/ \A other \in Cells : grid'[other].character # NoChar
                               => grid'[other].character.uid # grid[cell].character.uid

\* max(1, atk - def), written out.
FlooredDifference(atk, def) == IF atk - def < 1 THEN 1 ELSE atk - def

\* C15: a hit takes max(1, attacker.atk - target.def) from the target's hp
\* (15 against 20 takes 1, 30 against 20 takes 10, 8 against 3 takes 5); a
\* target that would fall to 0 or less leaves the grid; the attacker and
\* every other cell stay as they were.
C15_Damage ==
  [][ResolvesAction =>
       \A target \in Cells :
         IsHit(target) =>
           LET attacker == grid[ActingCell].character
               victim == grid[target].character
               dmg == FlooredDifference(CHARACTERS[attacker.id].atk,
                                        CHARACTERS[victim.id].def)
           IN /\ dmg >= 1
              /\ CHARACTERS[attacker.id].atk = 15 /\ CHARACTERS[victim.id].def = 20 => dmg = 1
              /\ CHARACTERS[attacker.id].atk = 30 /\ CHARACTERS[victim.id].def = 20 => dmg = 10
              /\ CHARACTERS[attacker.id].atk = 8 /\ CHARACTERS[victim.id].def = 3 => dmg = 5
              /\ target # ActingCell
              /\ grid'[target].owner = grid[target].owner
              /\ IF victim.hp - dmg > 0
                 THEN grid'[target].character = [victim EXCEPT !.hp = victim.hp - dmg]
                 ELSE grid'[target].character = NoChar
              /\ \A other \in Cells \ {target} : grid'[other] = grid[other]]_vars

\* A tank that a warrior has hit for 1 stands next to an assassin that the tank
\* has hit for 5, in the executing step of round 1.
C15_Witness ==
  /\ step.type = "executing"
  /\ \E a, b \in Cells :
       /\ grid[a].character.id = "tank"
       /\ grid[a].character.hp = CHARACTERS["tank"].hp - 1
       /\ grid[b].character.id = "assassin"
       /\ grid[b].character.hp = CHARACTERS["assassin"].hp - 5

\* Player p has a unit with hp > 0 on grid g.
HasLiving(g, p) ==
  \E cell \in Cells : /\ g[cell].character # NoChar
                      /\ g[cell].character.owner = p
                      /\ g[cell].character.hp > 0

\* C16: after every resolved action the win condition is applied to the
\* resulting grid: a player left without living units loses to the other, both
\* left without is a draw, and with a living unit on each side the executing
\* step goes on.
C16_WinCheck ==
  [][ResolvesAction =>
       /\ (~HasLiving(grid', 1) /\ HasLiving(grid', 2))
            => step' = GameOver /\ winner' = 2
       /\ (HasLiving(grid', 1) /\ ~HasLiving(grid', 2))
            => step' = GameOver /\ winner' = 1
       /\ (~HasLiving(grid', 1) /\ ~HasLiving(grid', 2))
            => step' = GameOver /\ winner' = NoPlayer
       /\ (HasLiving(grid', 1) /\ HasLiving(grid', 2))
            => step' = step /\ winner' = winner /\ currentTurn' = currentTurn]_vars

\* Player 2 deployed and has lost its last unit to a hit: player 1 has won.
C16_Witness ==
  /\ step = GameOver
  /\ winner = 1
  /\ Len(spawnLog[2]) > 0
  /\ ~HasLiving(grid, 2)
  /\ HasLiving(grid, 1)
  /\ Cardinality({cell \in Cells : grid[cell].character # NoChar})
       < Len(spawnLog[1]) + Len(spawnLog[2])

\* The executing step is complete and its end is the end of the round: the
\* only step left is the one that leaves the round.
AtRoundEnd ==
  /\ step.type = "executing"
  /\ execComplete
  /\ currentTurn = 1 \/ step.player # 1

\* C17: at the end of round r, if r + 1 is above the round limit the match
\* becomes GameOver in the same round with the balances untouched (no
\* interest, no next shopping step); if r + 1 is within the limit the next
\* round starts in Shopping(1) and the match is not over.
C17_RoundLimit ==
  [][AtRoundEnd =>
       IF currentTurn + 1 > gameSettings.maxTurns
       THEN /\ step' = GameOver
            /\ currentTurn' = currentTurn
            /\ gold' = gold
            /\ savedGold' = savedGold
            /\ savedGrid' = savedGrid
       ELSE /\ step' = Shopping(1)
            /\ currentTurn' = currentTurn + 1]_vars

\* The match ended at the round limit, not by elimination.
C17_Witness ==
  /\ step = GameOver
  /\ currentTurn = gameSettings.maxTurns
  /\ currentTurn > 1
  /\ HasLiving(grid, 1)
  /\ HasLiving(grid, 2)

\* The sum of the hp of the units of player p on grid g.
RECURSIVE HpOver(_, _)
HpOver(g, S) ==
  IF S = {} THEN 0
  ELSE LET cell == CHOOSE c \in S : TRUE
       IN g[cell].character.hp + HpOver(g, S \ {cell})

TotalHp(g, p) ==
  HpOver(g, {cell \in Cells : g[cell].character # NoChar /\ g[cell].character.owner = p})

\* C18: at the round end past the round limit the winner is the player whose
\* units, as they stand when the final executing step has completed, hold the
\* higher sum of hp; equal sums are a draw.
C18_ResolutionByHp ==
  [][(AtRoundEnd /\ currentTurn + 1 > gameSettings.maxTurns) =>
       /\ step' = GameOver
       /\ winner' = IF TotalHp(grid, 1) > TotalHp(grid, 2) THEN 1
                    ELSE IF TotalHp(grid, 2) > TotalHp(grid, 1) THEN 2
                    ELSE NoPlayer]_vars

\* floor(g / 10) for g >= 0.
TenthFloor(g) == CHOOSE k \in 0 .. g : 10 * k <= g /\ g < 10 * k + 10

\* min(cap, g + floor(g / 10) + 5).
Settled(g, cap) ==
  LET v == g + TenthFloor(g) + 5
  IN IF v > cap THEN cap ELSE v

\* C19: at a round end that does not end the match both balances become
\* min(goldCap, gold + floor(gold / 10) + 5), in one step, so none is above the
\* cap afterwards; any other step that changes gold is a purchase of a
\* shopping step, which only lowers the balance of the shopping player.
C19_Interest ==
  [][IF AtRoundEnd /\ currentTurn + 1 <= gameSettings.maxTurns
     THEN \A p \in Players :
            /\ gold'[p] = Settled(gold[p], gameSettings.maxGold)
            /\ gold'[p] <= gameSettings.maxGold
     ELSE gold' # gold =>
            /\ step.type = "shopping"
            /\ gold'[step.player] < gold[step.player]
            /\ \A p \in Players \ {step.player} : gold'[p] = gold[p]]_vars

\* Round 3 has started under the cap of 25.  Player 1 has spent 3 in the match,
\* on its one assassin in round 1: it held 17 at the first settlement, which
\* gave 23, and 23 at the second, which gave 25 and not 30.
C19_Witness ==
  /\ currentTurn = 3
  /\ step = Shopping(1)
  /\ gameSettings.maxGold = INITIAL_GOLD + STIPEND
  /\ gold[1] = 25
  /\ ~hexBoughtThisTurn[1]
  /\ spawnLog[1] = <<0>>
  /\ Cardinality({cell \in Cells : grid[cell].owner = 1}) = Cardinality(P1_INITIAL)
  /\ \E cell \in Cells : /\ grid[cell].character.id = "assassin"
                         /\ grid[cell].character.uid = 1

\* C20: when the grid stored at load has other dimensions than ROWS x COLS, the
\* match that starts is a fresh one: the initial grid (initial territories, no
\* unit), 20 gold for each player, and nothing of the snapshot kept.
C20_StaleSnapshotDiscarded ==
  [][(/\ step = Unmounted
      /\ DOMAIN savedGrid # {}
      /\ DOMAIN savedGrid # Cells) =>
       /\ step' = Shopping(1)
       /\ grid' = createInitialGrid
       /\ \A cell \in Cells : grid'[cell].character = NoChar
       /\ gold' = [p \in Players |-> 20]
       /\ spawnCounter' = [p \in Players |-> 0]
       /\ DOMAIN savedGrid' = {}]_vars

\* C21: on both boards the distance of a cell to itself is 0, the distance is
\* symmetric, it satisfies the triangle inequality, and it is a natural number.
C21_DistanceIsMetric ==
  call.fn = "hexDistance" =>
    /\ call.result.aa = 0
    /\ call.result.ab = call.result.ba
    /\ call.result.ac <= call.result.ab + call.result.bc
    /\ \A d \in {call.result.aa, call.result.ab, call.result.ba,
                 call.result.bc, call.result.ac} : d \in Nat

\* Three distinct cells, the middle one on a shortest way between the others.
C21_Witness ==
  /\ call.fn = "hexDistance"
  /\ Cardinality({call.args[2], call.args[3], call.args[4]}) = 3
  /\ call.result.ab >= 1
  /\ call.result.bc >= 1
  /\ call.result.ac = call.result.ab + call.result.bc

\* Length of the shortest path from the cells of frontier (at d steps from
\* the start) to b in the graph whose edges are given by neighbors; -1 when b
\* cannot be reached.
RECURSIVE PathLength(_, _, _, _, _)
PathLength(layout, frontier, seen, b, d) ==
  IF b \in frontier THEN d
  ELSE IF frontier = {} THEN -1
  ELSE LET next == UNION {SeqRange(neighbors(layout, x)) : x \in frontier} \ seen
       IN PathLength(layout, next, seen \cup next, b, d + 1)

ShortestPath(layout, a, b) == PathLength(layout, {a}, {a}, b, 0)

\* C22: on both boards the distance of two cells is the length of the shortest
\* path between them in the graph of neighbors; in particular it is 1 exactly
\* when the second cell is among the neighbors of the first.
C22_DistanceIsShortestPath ==
  call.fn = "hexDistance" =>
    /\ call.result.ab = ShortestPath(call.args[1], call.args[2], call.args[3])
    /\ call.result.ab = 1 <=>
         call.args[3] \in SeqRange(neighbors(call.args[1], call.args[2]))

\* Two cells far apart, in rows and columns of different parity.
C22_Witness ==
  /\ call.fn = "hexDistance"
  /\ call.result.ab >= ROWS
  /\ (call.args[2][1] + call.args[3][1]) % 2 = 1
  /\ (call.args[2][2] + call.args[3][2]) % 2 = 1

\* C23: on both boards the neighbors of a cell are at most 6, the cell itself
\* is not among them, and each of them is a cell of the board marked valid.
C23_NeighborsWellFormed ==
  call.fn = "getHexNeighbors" =>
    /\ Len(call.result) <= 6
    /\ \A i \in 1 .. Len(call.result) :
         /\ call.result[i] # call.args[2]
         /\ call.result[i] \in Cells
         /\ BOARD_LAYOUT[call.result[i]] = 1

\* A cell on the edge of the board: some of the 6 offsets fall outside.
C23_Witness ==
  /\ call.fn = "getHexNeighbors"
  /\ call.args[2][1] = ROWS - 1
  /\ Len(call.result) \in 1 .. 5

\* C24: with the filter "all" the order holds every living unit once, the
\* units of the player who moves first (player 1 in an odd round, player 2 in
\* an even one) before any unit of the other player, and the units of each
\* player in ascending spawnOrder.
C24_AllOrderByParity ==
  (call.fn = "getExecutionOrder" /\ call.args[2] = All) =>
    LET g == call.args[1]
        order == call.result
        first == IF call.args[3] % 2 = 1 THEN 1 ELSE 2
    IN /\ SeqRange(order) = Living(g)
       /\ Len(order) = Cardinality(Living(g))
       /\ \A i, j \in 1 .. Len(order) :
            i < j =>
              /\ g[order[j]].character.owner = first =>
                   g[order[i]].character.owner = first
              /\ g[order[i]].character.owner = g[order[j]].character.owner =>
                   g[order[i]].character.spawnOrder <= g[order[j]].character.spawnOrder

\* Round 3, two units on each side, and the scan of the grid meets a unit of
\* player 2 first and player 1's later unit before its earlier one.
C24_Witness ==
  /\ call.fn = "getExecutionOrder"
  /\ call.args[2] = All
  /\ call.args[3] = 3
  /\ Len(call.result) = 4
  /\ call.args[1][<<0, 1>>].character.owner = 2
  /\ call.args[1][call.result[1]].character.owner = 1
  /\ call.args[1][call.result[1]].character.spawnOrder = 0
  /\ call.args[1][call.result[2]].character.spawnOrder = 1
  /\ RowMajor(call.result[2]) < RowMajor(call.result[1])
  /\ call.args[1][call.result[3]].character.owner = 2

\* The cell of grid g on which the unit uid stands.
CellOf(g, uid) ==
  CHOOSE cell \in Cells : g[cell].character # NoChar /\ g[cell].character.uid = uid

OnGrid(g, uid) ==
  \E cell \in Cells : g[cell].character # NoChar /\ g[cell].character.uid = uid

\* C25: while Executing(p) lasts for a single player p, every action resolved
\* is one of a unit of p, in ascending spawnOrder; the units of p stay on the
\* grid and lose no hp, and the units of the other player do not move and gain
\* no hp.
C25_SinglePlayerPhase ==
  [][(step.type = "executing" /\ step.player \in Players /\ step'.type # "shopping") =>
       LET p == step.player
       IN /\ ResolvesAction =>
               /\ grid[ActingCell].character.owner = p
               /\ (Len(acted) > 0 /\ OnGrid(grid, acted[Len(acted)])) =>
                    grid[CellOf(grid, acted[Len(acted)])].character.spawnOrder
                      <= grid[ActingCell].character.spawnOrder
          /\ ~ResolvesAction => grid' = grid
          /\ \A cell \in Cells :
               grid[cell].character # NoChar =>
                 LET unit == grid[cell].character
                 IN IF unit.owner = p
                    THEN /\ OnGrid(grid', unit.uid)
                         /\ grid'[CellOf(grid', unit.uid)].character.hp >= unit.hp
                    ELSE OnGrid(grid', unit.uid) =>
                           /\ CellOf(grid', unit.uid) = cell
                           /\ grid'[cell].character.hp <= unit.hp]_vars

\* Executing(2) in a later round, two actions resolved, and a unit of player 1
\* on the grid that has been hit.
C25_Witness ==
  /\ step = Executing(2)
  /\ currentTurn >= 2
  /\ Len(acted) >= 2
  /\ \E cell \in Cells : /\ grid[cell].character # NoChar
                         /\ grid[cell].character.owner = 1
                         /\ grid[cell].character.hp < grid[cell].character.maxHp

\* The uids of the units on grid g, and what player q holds on it.
UidsOn(g) == {g[cell].character.uid : cell \in {c \in Cells : g[c].character # NoChar}}
TerritoryOf(g, q) == {cell \in Cells : g[cell].owner = q}
UnitsHeld(g, q) ==
  {<<cell, g[cell].character>> :
     cell \in {c \in Cells : g[c].character # NoChar /\ g[c].character.owner = q}}

\* C26: a step taken in an executing step or after the match is over deploys
\* nothing (no spawnOrder is handed out, and while the step lasts no unit
\* appears on the grid), changes no cell's owner and spends no gold (the
\* balances change only by the settlement of the round end); a step taken in
\* Shopping(p) leaves the other player's gold, territory and units as they are.
C26_ShoppingOnly ==
  [][/\ step.type \in {"executing", "game_over"} =>
          /\ spawnLog' = spawnLog
          /\ step'.type # "shopping" => UidsOn(grid') \subseteq UidsOn(grid)
          /\ \A cell \in Cells : grid'[cell].owner = grid[cell].owner
          /\ \/ gold' = gold
             \/ /\ step'.type = "shopping"
                /\ gold' = [q \in Players |-> Interest(gold[q], gameSettings.maxGold)]
     /\ step.type = "shopping" =>
          \A q \in Players \ {step.player} :
            /\ gold'[q] = gold[q]
            /\ spawnLog'[q] = spawnLog[q]
            /\ TerritoryOf(grid', q) = TerritoryOf(grid, q)
            /\ UnitsHeld(grid', q) = UnitsHeld(grid, q)]_vars

\* Player 2 has bought a hex in its shopping step of a later round, after an
\* executing step of player 1, with units of both players and gold of player 1
\* on the table.
C26_Witness ==
  /\ step = Shopping(2)
  /\ currentTurn >= 2
  /\ hexBoughtThisTurn[2]
  /\ Len(acted) > 0
  /\ gold[1] > 0
  /\ UnitsHeld(grid, 1) # {}
  /\ UnitsHeld(grid, 2) # {}

\* What the claims on the resolver speak of, for the unit on cell a of grid g:
\* its living enemies and allies, the distance from a, the enemy at minimum
\* distance and the wounded ally of lowest hp (the first in the row-major
\* enumeration on ties), and the outcome r of a movement step toward target.
EnemiesOf(g, a) ==
  {c \in Cells : /\ g[c].character # NoChar
                 /\ g[c].character.hp > 0
                 /\ g[c].character.owner # g[a].character.owner}
WoundedAlliesOf(g, a) ==
  {c \in Cells \ {a} : /\ g[c].character # NoChar
                       /\ g[c].character.hp > 0
                       /\ g[c].character.owner = g[a].character.owner
                       /\ g[c].character.hp < g[c].character.maxHp}
DistFrom(a, c) == hexDistance(a[1], a[2], c[1], c[2])
NearestEnemy(g, a) ==
  CHOOSE e \in EnemiesOf(g, a) :
    \A e2 \in EnemiesOf(g, a) :
      \/ DistFrom(a, e) < DistFrom(a, e2)
      \/ DistFrom(a, e) = DistFrom(a, e2) /\ RowMajor(e) <= RowMajor(e2)
LowestWounded(g, a) ==
  CHOOSE w \in WoundedAlliesOf(g, a) :
    \A w2 \in WoundedAlliesOf(g, a) :
      \/ g[w].character.hp < g[w2].character.hp
      \/ g[w].character.hp = g[w2].character.hp /\ RowMajor(w) <= RowMajor(w2)
CloserEmpty(g, a, target) ==
  {n \in SeqRange(getHexNeighbors(a[1], a[2])) :
     g[n].character = NoChar /\ DistFrom(n, target) < DistFrom(a, target)}
IsMovementStep(g, a, target, r) ==
  IF CloserEmpty(g, a, target) = {} THEN r = g
  ELSE \E n \in CloserEmpty(g, a, target) :
         r = [g EXCEPT ![n].character = g[a].character, ![a].character = NoChar]

\* C27: a unit that is not a healer, with a living enemy on the grid, acts on
\* the enemy at minimum distance, the first in row-major order among the
\* nearest: at distance 1 or less it hits that enemy (nothing else changes),
\* otherwise it takes a movement step toward that enemy (one cell closer, or
\* in place when the step is blocked).
C27_AttackNearest ==
  (/\ call.fn = "executeCharAction"
   /\ call.args[1][call.args[2]].character.id # "healer"
   /\ EnemiesOf(call.args[1], call.args[2]) # {}) =>
    LET g == call.args[1]
        a == call.args[2]
        e == NearestEnemy(g, a)
        dmg == Max(1, CHARACTERS[g[a].character.id].atk - CHARACTERS[g[e].character.id].def)
    IN IF DistFrom(a, e) <= 1
       THEN call.result =
              [g EXCEPT ![e].character =
                 IF g[e].character.hp - dmg <= 0 THEN NoChar
                 ELSE [g[e].character EXCEPT !.hp = g[e].character.hp - dmg]]
       ELSE IsMovementStep(g, a, e, call.result)

\* Two enemies at the same, smallest distance of more than 1, and the actor
\* has moved.
C27_Witness ==
  /\ call.fn = "executeCharAction"
  /\ call.args[1][call.args[2]].character.id = "assassin"
  /\ \E e1, e2 \in EnemiesOf(call.args[1], call.args[2]) :
       /\ e1 # e2
       /\ e1 = NearestEnemy(call.args[1], call.args[2])
       /\ DistFrom(call.args[2], e1) = DistFrom(call.args[2], e2)
       /\ DistFrom(call.args[2], e1) > 1
       /\ CloserEmpty(call.args[1], call.args[2], e1)
            # CloserEmpty(call.args[1], call.args[2], e2)
  /\ call.result[call.args[2]].character = NoChar

\* The grid g in which the unit on w has been healed by amount, up to its maxHp,
\* and nothing else differs.
Healed(g, w, amount) ==
  [g EXCEPT ![w].character.hp =
     Min(g[w].character.maxHp, g[w].character.hp + amount)]

\* The call is one of a healer with a wounded ally, the one of lowest hp at
\* distance 2 or less.
HealerInRange ==
  /\ call.fn = "executeCharAction"
  /\ call.args[1][call.args[2]].character.id = "healer"
  /\ WoundedAlliesOf(call.args[1], call.args[2]) # {}
  /\ DistFrom(call.args[2], LowestWounded(call.args[1], call.args[2])) <= 2

\* C28 as stated: a healer whose wounded ally of lowest hp is within distance 2
\* raises that ally's hp by its attack stat, capped at maxHp, and nothing else
\* changes.
C28_HealInRangeAsStated ==
  HealerInRange =>
    call.result = Healed(call.args[1], LowestWounded(call.args[1], call.args[2]),
                         CHARACTERS["healer"].atk)

\* C28, amended: with a living enemy on the grid, a healer whose wounded ally
\* of lowest hp is within distance 2 raises that ally's hp by its attack stat,
\* capped at maxHp, and nothing else changes: the healer does not move and no
\* other unit's hp or position changes.
C28_HealInRange ==
  (HealerInRange /\ EnemiesOf(call.args[1], call.args[2]) # {}) =>
    call.result = Healed(call.args[1], LowestWounded(call.args[1], call.args[2]),
                         CHARACTERS["healer"].atk)

\* A healer of attack 10 next to an enemy has brought an ally from 40/90 to
\* 50/90.
C28_Witness ==
  /\ HealerInRange
  /\ \E e \in EnemiesOf(call.args[1], call.args[2]) : DistFrom(call.args[2], e) = 1
  /\ LET w == LowestWounded(call.args[1], call.args[2])
     IN /\ call.args[1][w].character.hp = 40
        /\ call.args[1][w].character.maxHp = 90
        /\ call.result[w].character.hp = 50
        /\ call.result[call.args[2]] = call.args[1][call.args[2]]

\* The call is one of a healer with at least one wounded ally.
HealerWithWounded ==
  /\ call.fn = "executeCharAction"
  /\ call.args[1][call.args[2]].character.id = "healer"
  /\ WoundedAlliesOf(call.args[1], call.args[2]) # {}

\* The healer's call has acted on target w and on nobody else: within distance
\* 2 only w differs, by a gain of hp; farther away the outcome is a movement
\* step toward w, in which nobody's hp changes.
ActsOnTarget(g, a, w, r) ==
  IF DistFrom(a, w) <= 2
  THEN /\ \A c \in Cells \ {w} : r[c] = g[c]
       /\ r[w].character # NoChar
       /\ r[w].character.hp > g[w].character.hp
  ELSE IsMovementStep(g, a, w, r)

\* C29 as stated: a healer's target is always the wounded living ally of lowest
\* hp (the first in enumeration order on ties); if that ally is farther than
\* distance 2 the healer takes a movement step toward it and heals nobody, also
\* when another wounded ally is in range.
C29_HealerTargetAsStated ==
  HealerWithWounded =>
    ActsOnTarget(call.args[1], call.args[2],
                 LowestWounded(call.args[1], call.args[2]), call.result)

\* C29, amended: with a living enemy on the grid, a healer's target is the
\* wounded living ally of lowest hp (the first in enumeration order on ties);
\* if that ally is farther than distance 2 the healer takes a movement step
\* toward it and heals nobody, also when another wounded ally is in range.
C29_HealerTarget ==
  (HealerWithWounded /\ EnemiesOf(call.args[1], call.args[2]) # {}) =>
    ActsOnTarget(call.args[1], call.args[2],
                 LowestWounded(call.args[1], call.args[2]), call.result)

\* The ally of lowest hp is out of range, another wounded ally is next to the
\* healer, and the healer has moved.
C29_Witness ==
  /\ HealerWithWounded
  /\ EnemiesOf(call.args[1], call.args[2]) # {}
  /\ DistFrom(call.args[2], LowestWounded(call.args[1], call.args[2])) > 2
  /\ \E w \in WoundedAlliesOf(call.args[1], call.args[2]) :
       DistFrom(call.args[2], w) = 1
  /\ call.result[call.args[2]].character = NoChar

\* C30: a movement step puts the actor on an empty, valid neighbor cell that is
\* strictly closer to the target than the actor's cell, empties the cell it
\* came from and changes no other cell; when no empty neighbor is strictly
\* closer (also when every neighbor is occupied) the action is "blocked" and
\* the grid is unchanged.
C30_MovementStep ==
  call.fn = "moveToward" =>
    LET g == call.args[1]
        from == call.args[2]
        to == call.args[3]
        r == call.result.grid
    IN IF CloserEmpty(g, from, to) = {}
       THEN r = g /\ call.result.action = "Blocked"
       ELSE /\ call.result.action # "Blocked"
            /\ \E n \in SeqRange(getHexNeighbors(from[1], from[2])) :
                 /\ n \in Cells
                 /\ BOARD_LAYOUT[n] = 1
                 /\ g[n].character = NoChar
                 /\ DistFrom(n, to) < DistFrom(from, to)
                 /\ r[n].character = g[from].character
                 /\ r[from].character = NoChar
                 /\ \A c \in Cells \ {n, from} : r[c] = g[c]
                 /\ \A c \in Cells : r[c].owner = g[c].owner

\* Every neighbor of the actor is occupied, the target is farther away, and the
\* step is blocked.
C30_Witness ==
  /\ call.fn = "moveToward"
  /\ DistFrom(call.args[2], call.args[3]) > 1
  /\ \A n \in SeqRange(getHexNeighbors(call.args[2][1], call.args[2][2])) :
       call.args[1][n].character # NoChar
  /\ call.result.action = "Blocked"
  /\ call.result.grid = call.args[1]

\* C31: a unit with no living enemy on the grid idles: the action returned is
\* the idle one and the grid is returned as it was (nobody is healed, hit or
\* moved), also for a healer with a wounded ally within its range.
C31_IdleWithoutEnemies ==
  (/\ call.fn = "executeCharAction"
   /\ EnemiesOf(call.args[1], call.args[2]) = {}) =>
    /\ call.action = "Idle"
    /\ call.result = call.args[1]

\* A healer with a wounded ally next to it and no enemy on the grid has idled.
C31_Witness ==
  /\ call.fn = "executeCharAction"
  /\ call.args[1][call.args[2]].character.id = "healer"
  /\ EnemiesOf(call.args[1], call.args[2]) = {}
  /\ \E w \in WoundedAlliesOf(call.args[1], call.args[2]) :
       DistFrom(call.args[2], w) = 1
  /\ call.action = "Idle"
  /\ call.result = call.args[1]

\* C32: a unit keeps the owner it was deployed with: in every step, a unit that
\* stands on the grid before and after has the same owner, 1 or 2.
C32_OwnerNeverChanges ==
  [][\A uid \in UidsOn(grid) \cap UidsOn(grid') :
       /\ grid'[CellOf(grid', uid)].character.owner
            = grid[CellOf(grid, uid)].character.owner
       /\ grid'[CellOf(grid', uid)].character.owner \in Players]_vars

\* C33: in every state, the living units a player owns, wherever they stand,
\* are at most as many as the cells the player owns.
C33_UnitsWithinTerritory ==
  \A p \in Players :
    Cardinality({cell \in Living(grid) : grid[cell].character.owner = p})
      <= ownedCount(grid, p)

\* Player 1 has deployed more units than it owns cells and every unit deployed
\* is still on the grid: some of them moved off player 1's cells, which were
\* then filled again.
C33_Witness ==
  /\ Len(spawnLog[1]) > ownedCount(grid, 1)
  /\ Cardinality(Living(grid)) = Len(spawnLog[1]) + Len(spawnLog[2])
  /\ \E cell \in Living(grid) : grid[cell].owner # 1 /\ grid[cell].character.owner = 1

\* C34: GameOver is terminal: from a state in GameOver no operation changes the
\* phase, the winner, the grid or the gold.
C34_GameOverTerminal ==
  [][step = GameOver => UNCHANGED <<step, winner, grid, gold>>]_vars

\* The match is over with a winner while units of both players stand on the
\* grid and both players have gold left.
C34_Witness ==
  /\ step = GameOver
  /\ winner \in Players
  /\ \A p \in Players : Alive(grid, p) /\ gold[p] > 0

\* C35: a step that resolves a unit's action changes no cell's owner, neither
\* player's gold, no territory-bought flag and no spawn counter; on the grid
\* only the cells' occupants and the units' hp differ: no unit appears, and a
\* unit that stays keeps everything but its cell and its hp.
C35_ResolutionFrame ==
  [][ResolvesAction =>
       /\ \A cell \in Cells : grid'[cell].owner = grid[cell].owner
       /\ gold' = gold
       /\ hexBoughtThisTurn' = hexBoughtThisTurn
       /\ spawnCounter' = spawnCounter
       /\ \A uid \in UidsOn(grid') :
            /\ uid \in UidsOn(grid)
            /\ [grid'[CellOf(grid', uid)].character
                  EXCEPT !.hp = grid[CellOf(grid, uid)].character.hp]
                 = grid[CellOf(grid, uid)].character]_vars

\* While a step executes, after a player has bought a hex and deployed, one
\* unit has walked onto a cell that is not its owner's and another is wounded.
C35_Witness ==
  /\ step.type = "executing"
  /\ Len(acted) > 0
  /\ \E p \in Players : hexBoughtThisTurn[p] /\ spawnCounter[p] > 0
  /\ \E cell \in Living(grid) : grid[cell].owner # grid[cell].character.owner
  /\ \E cell \in Living(grid) : grid[cell].character.hp < grid[cell].character.maxHp

\* The units scheduled at the start of the executing step: the order computed
\* from the grid the step started with.
ScheduledAtStart == Len(getExecutionOrder(execDoneGrid, step.player, currentTurn))

\* The calls of executeStep made in this executing step so far: one per unit
\* resolved, and the one that reported the step complete.
StepCalls == execStepIndex + (IF execComplete THEN 1 ELSE 0)

\* C36: an executing step ends after at most one call of executeStep more than
\* the units scheduled at its start.  In every state of an executing step the
\* units resolved are at most the units scheduled at the start and the calls
\* made at most one more; while the step is not reported complete each call
\* counts: it resolves the next unit (which may end the match) or reports the
\* step complete; once it is complete the only step that changes anything is
\* the end of the executing step, not a call of executeStep.
C36_ExecutingTerminates ==
  [][step.type = "executing" =>
       /\ execStepIndex <= ScheduledAtStart
       /\ StepCalls <= ScheduledAtStart + 1
       /\ ~execComplete =>
            /\ StepCalls' = StepCalls + 1
            /\ step' = step \/ step' = GameOver
       /\ execComplete =>
            /\ ~execComplete'
            /\ step' # step]_vars

\* An executing step with two units or more scheduled has been reported
\* complete by the call after the last unit.
C36_Witness ==
  /\ step.type = "executing"
  /\ execComplete
  /\ ScheduledAtStart >= 2
  /\ execStepIndex = ScheduledAtStart

\* C37: when the Done buttons keep being pressed and the execution keeps being
\* stepped, the match reaches GameOver; the round index changes only at a round
\* end that does not end the match, where it grows by exactly one; it never
\* decreases and never exceeds the round limit.
C37_MatchEnds ==
  /\ <>(step = GameOver)
  /\ [][/\ currentTurn <= gameSettings.maxTurns
        /\ currentTurn' <= gameSettings.maxTurns
        /\ currentTurn' >= currentTurn
        /\ currentTurn' # currentTurn =>
             AtRoundEnd /\ step' # GameOver /\ currentTurn' = currentTurn + 1
        /\ (AtRoundEnd /\ currentTurn + 1 <= gameSettings.maxTurns) =>
             currentTurn' = currentTurn + 1
        /\ (AtRoundEnd /\ currentTurn + 1 > gameSettings.maxTurns) =>
             step' = GameOver]_vars

\* A match with a round limit of MaxTurns has ended at the end of its last
\* round, with units of both players on the grid.
C37_Witness ==
  /\ step = GameOver
  /\ gameSettings.maxTurns = MaxTurns
  /\ currentTurn = MaxTurns
  /\ \A p \in Players : Alive(grid, p)

\* C38: when a player's shopping step starts, in every round, that player's
\* hexBoughtThisTurn flag is false; and while it is false, the BUY button of a
\* player with gold for a hex, pressed for an unowned cell next to the
\* player's territory, gives the player that cell.
C38_FlagClearAtShopping ==
  [][/\ (step' # step /\ step'.type = "shopping") => ~hexBoughtThisTurn'[step'.player]
     /\ (/\ step.type = "shopping"
         /\ popup = "buyHex"
         /\ ~hexBoughtThisTurn[step.player]
         /\ gold[step.player] >= HEX_COST
         /\ hexBoughtThisTurn' # hexBoughtThisTurn) =>
          /\ grid[popupHex].owner = NoPlayer
          /\ isAdjacentToOwned(grid, popupHex[1], popupHex[2], step.player)
          /\ grid'[popupHex].owner = step.player
          /\ hexBoughtThisTurn'[step.player]]_vars

\* In the last round a player owns one cell more than its initial territory
\* for every round played: it has bought a hex in each of them.
C38_Witness ==
  /\ currentTurn = MaxTurns
  /\ \E p \in Players :
       /\ ownedCount(grid, p) = Cardinality(P1_INITIAL) + MaxTurns
       /\ hexBoughtThisTurn[p]

\* The units of the acting unit's side on grid g, the acting unit included.
OwnSide(g, a) ==
  {c \in Cells : g[c].character # NoChar
                 /\ g[c].character.owner = g[a].character.owner}

\* C39: a healer with a living enemy and no wounded ally acts as a unit that
\* attacks the nearest: at distance 1 or less it hits the nearest enemy (the
\* first in row-major order among the nearest), otherwise it takes a movement
\* step toward it (one cell closer, or in place when blocked); no unit of its
\* side, an ally at full hp or the healer itself, has more hp afterwards.
C39_HealerWithoutWounded ==
  (/\ call.fn = "executeCharAction"
   /\ call.args[1][call.args[2]].character.id = "healer"
   /\ EnemiesOf(call.args[1], call.args[2]) # {}
   /\ WoundedAlliesOf(call.args[1], call.args[2]) = {}) =>
    LET g == call.args[1]
        a == call.args[2]
        r == call.result
        e == NearestEnemy(g, a)
        dmg == Max(1, CHARACTERS["healer"].atk - CHARACTERS[g[e].character.id].def)
    IN /\ IF DistFrom(a, e) <= 1
          THEN /\ call.action = "Attacked"
               /\ \A c \in Cells \ {e} : r[c] = g[c]
               /\ r[e].character =
                    IF g[e].character.hp <= dmg THEN NoChar
                    ELSE [g[e].character EXCEPT !.hp = g[e].character.hp - dmg]
          ELSE /\ call.action \in {"Moving", "Blocked"}
               /\ IsMovementStep(g, a, e, r)
       /\ \A c \in OwnSide(g, a) :
            \E c2 \in Cells : /\ r[c2].character # NoChar
                              /\ r[c2].character.uid = g[c].character.uid
                              /\ r[c2].character.hp = g[c].character.hp

\* A wounded healer with an unhurt ally and an enemy next to it has hit the
\* enemy and has the hp it had.
C39_Witness ==
  /\ call.fn = "executeCharAction"
  /\ call.args[1][call.args[2]].character.id = "healer"
  /\ call.args[1][call.args[2]].character.hp
       < call.args[1][call.args[2]].character.maxHp
  /\ WoundedAlliesOf(call.args[1], call.args[2]) = {}
  /\ \E c \in OwnSide(call.args[1], call.args[2]) \ {call.args[2]} :
       DistFrom(call.args[2], c) = 1
  /\ \E e \in EnemiesOf(call.args[1], call.args[2]) :
       /\ DistFrom(call.args[2], e) = 1
       /\ call.result[e].character.hp < call.args[1][e].character.hp
  /\ call.result[call.args[2]].character.hp
       = call.args[1][call.args[2]].character.hp

====
